---- MODULE Spec2Model ----
(***************************************************************************)
(* Model of the fiddle_secwrap syscall-filtering supervisor                *)
(* (fiddlek/cpp/fiddle_secwrap.cpp, webtry/fiddle_secwrap.cpp,             *)
(* webtry/seccomp_bpf.h, webtry/main.cpp).                                 *)
(*                                                                         *)
(* Three specifications:                                                   *)
(*   FilterSpec  runs the seccomp BPF programs one instruction at a time   *)
(*               on every (architecture, syscall number, arguments) input; *)
(*   Spec        the supervisor (tracer), the forked child (tracee) and    *)
(*               the kernel's ptrace/seccomp/wait interface between them;  *)
(*   UnitSpec    one call of read_string, test_against_prefixes or the     *)
(*               dispatch of do_trace on given arguments.                  *)
(***************************************************************************)
EXTENDS Integers, Sequences, FiniteSets, TLC

VARIABLES
    \* ---- the BPF machine (FilterSpec) ----
    fprog,        \* which filter program runs: "fiddlek", "webtry", "webtry_main", or "off"
    fdata,        \* struct seccomp_data given to the program: [arch, nr, args]
    fpc,          \* index of the next instruction (1-based), 0 when off
    facc,         \* the accumulator A
    fret,         \* the value returned by BPF_RET, "none" while running
    fNrLoaded,    \* history: the syscall number has been loaded into A
    \* ---- the supervisor, the child and the kernel (Spec) ----
    variant,      \* which fiddle_secwrap.cpp is built: "fiddlek" or "webtry"
    libc_clears_errno, \* whether the C library's ptrace() zeroes errno on a successful PEEK
    allowed_exec, \* argv[1] of the supervisor
    ppc,          \* supervisor position
    presult,      \* supervisor process exit code (meaningful when ppc = "done")
    status,       \* the supervisor's int status, as decoded by the W* macros
    errno,        \* the supervisor's errno
    cpc,          \* child position
    tstate,       \* kernel state of the child process ("fork_failed": there is none,
                  \* the supervisor's pid_t child is -1)
    pending,      \* wait status the kernel holds for the next waitpid, kind "none" if none
    opts,         \* ptrace options set on the tracee (PTRACE_O_TRACEEXEC|PTRACE_O_TRACESECCOMP)
    nnp,          \* NO_NEW_PRIVS bit of the child
    filter,       \* the BPF program installed in the child: "none", "fiddlek" or "webtry"
    regs,         \* tracee registers at its current syscall entry
    mem,          \* tracee address space: pointer -> mapped bytes starting there
    \* ---- one call of a function of the supervisor on given arguments (UnitSpec) ----
    uop,          \* the function called, "off" when none
    uin,          \* its arguments
    uout,         \* << >> before the call, << its result >> after it
    trap,         \* history of the stop last reported to the supervisor: what was read
                  \* for it (until the tracee is resumed) and the requests made for it
    childLog      \* history: the bootstrap calls the child has made, in order

fvars == <<fprog, fdata, fpc, facc, fret, fNrLoaded>>
svars == <<variant, libc_clears_errno, allowed_exec, ppc, presult, status, errno,
           cpc, tstate, pending, opts, nnp, filter, regs, mem, trap, childLog>>
uvars == <<uop, uin, uout>>
vars  == <<fprog, fdata, fpc, facc, fret, fNrLoaded, uop, uin, uout,
           variant, libc_clears_errno, allowed_exec, ppc, presult, status, errno,
           cpc, tstate, pending, opts, nnp, filter, regs, mem, trap, childLog>>

(***************************************************************************)
(* Bounds of the model.                                                    *)
(***************************************************************************)
\* Syscall numbers given to the filter programs range over 0..MaxNr.
MaxNr == 320
\* Exit codes the payload may pass to exit_group range over 0..MaxExit.
MaxExit == 1

(***************************************************************************)
(* Platform constants.                                                     *)
(***************************************************************************)
\* AUDIT_ARCH_X86_64 = 0xC000003E, written as the signed 32-bit word it is.
ARCH_NR == -1073741762
\* AUDIT_ARCH_I386 = EM_386 | __AUDIT_ARCH_LE (0x40000003): the tag the kernel
\* puts in seccomp_data.arch for a 32-bit (int $0x80) syscall of the tracee.
OTHER_ARCH == 3 + 1073741824
O_RDONLY == 0
O_ACCMODE == 3
\* sizeof(unsigned long) on x86-64: the size of one PTRACE_PEEKDATA word.
WordSize == 8
INITIAL_ALLOCATION == 4096

\* __NR_<name> / SYS_<name> on x86-64.
SYS == [ read |-> 0, write |-> 1, open |-> 2, close |-> 3, stat |-> 4, fstat |-> 5,
         lseek |-> 8, mmap |-> 9, mprotect |-> 10, munmap |-> 11, brk |-> 12,
         rt_sigaction |-> 13, rt_sigprocmask |-> 14, ioctl |-> 16, pread64 |-> 17,
         access |-> 21, sched_yield |-> 24, mremap |-> 25, shmctl |-> 31, dup |-> 32,
         getpid |-> 39, socket |-> 41, clone |-> 56, execve |-> 59, exit |-> 60,
         wait4 |-> 61, kill |-> 62, fcntl |-> 72, ftruncate |-> 77, getdents |-> 78,
         rename |-> 82, mkdir |-> 83, link |-> 86, unlink |-> 87, readlink |-> 89,
         chmod |-> 90, chown |-> 92, getrlimit |-> 97, sysinfo |-> 99, getuid |-> 102,
         getgid |-> 104, geteuid |-> 107, getegid |-> 108, mknod |-> 133,
         statfs |-> 137, fstatfs |-> 138, arch_prctl |-> 158, gettid |-> 186,
         futex |-> 202, getdents64 |-> 217, set_tid_address |-> 218,
         fadvise64 |-> 221, clock_gettime |-> 228, exit_group |-> 231,
         tgkill |-> 234, openat |-> 257, newfstatat |-> 262,
         set_robust_list |-> 273, prlimit64 |-> 302, getrandom |-> 318 ]

(***************************************************************************)
(* seccomp_bpf.h: the BPF macros.  An instruction is a record; a macro is  *)
(* the sequence of instructions it expands to.                             *)
(***************************************************************************)
\* BPF_STMT(BPF_LD+BPF_W+BPF_ABS, off): A := the 32-bit word of seccomp_data at off.
BPF_LD(off) == [code |-> "LD", off |-> off]
\* BPF_JUMP(BPF_JMP+BPF_JEQ+BPF_K, k, jt, jf): pc += (A = k) ? jt : jf.
BPF_JEQ(k, jt, jf) == [code |-> "JEQ", k |-> k, jt |-> jt, jf |-> jf]
\* BPF_STMT(BPF_ALU+BPF_AND+BPF_K, k): A := A & k.
BPF_AND(k) == [code |-> "AND", k |-> k]
\* BPF_STMT(BPF_RET+BPF_K, v): return v.
BPF_RET(v) == [code |-> "RET", ret |-> v]

arg_offset(i) == <<"args", i>>
syscall_nr == <<"nr">>
arch_nr == <<"arch">>

VALIDATE_ARCHITECTURE_inverted ==
    << BPF_LD(arch_nr), BPF_JEQ(ARCH_NR, 0, 1), BPF_RET("KILL") >>
VALIDATE_ARCHITECTURE ==
    << BPF_LD(arch_nr), BPF_JEQ(ARCH_NR, 1, 0), BPF_RET("KILL") >>

EXAMINE_SYSCALL == << BPF_LD(syscall_nr) >>

ALLOW_SYSCALL_jf2(name) == << BPF_JEQ(SYS[name], 0, 2), BPF_RET("ALLOW") >>
ALLOW_SYSCALL(name) == << BPF_JEQ(SYS[name], 0, 1), BPF_RET("ALLOW") >>

TRACE_OPENS_FOR_READS_ONLY_jf4(name, arg_index) ==
    << BPF_JEQ(SYS[name], 0, 4),
       BPF_LD(arg_offset(arg_index)),
       BPF_AND(O_ACCMODE),
       BPF_JEQ(O_RDONLY, 0, 1),
       BPF_RET("TRACE"),
       BPF_RET("KILL") >>
TRACE_OPENS_FOR_READS_ONLY(name, arg_index) ==
    << BPF_JEQ(SYS[name], 0, 5),
       BPF_LD(arg_offset(arg_index)),
       BPF_AND(O_ACCMODE),
       BPF_JEQ(O_RDONLY, 0, 1),
       BPF_RET("TRACE"),
       BPF_RET("KILL") >>

TRACE_SYSCALL(name) == << BPF_JEQ(SYS[name], 0, 1), BPF_RET("TRACE") >>

TRACE_ALL == << BPF_RET("TRACE") >>
KILL_PROCESS == << BPF_RET("KILL") >>

\* The array initialiser struct sock_filter filter[] = { macro, macro, ... }.
RECURSIVE Flatten(_)
Flatten(rules) ==
    IF rules = <<>> THEN <<>> ELSE Head(rules) \o Flatten(Tail(rules))

\* fiddlek/cpp/fiddle_secwrap.cpp, install_syscall_filter: filter[], one macro per entry.
fiddlek_rules ==
    << VALIDATE_ARCHITECTURE, EXAMINE_SYSCALL,
       ALLOW_SYSCALL("exit_group"), ALLOW_SYSCALL("exit"), ALLOW_SYSCALL("stat"),
       ALLOW_SYSCALL("fstat"), ALLOW_SYSCALL("read"), ALLOW_SYSCALL("write"),
       ALLOW_SYSCALL("getdents"), ALLOW_SYSCALL("close"), ALLOW_SYSCALL("mmap"),
       ALLOW_SYSCALL("mprotect"), ALLOW_SYSCALL("munmap"), ALLOW_SYSCALL("brk"),
       ALLOW_SYSCALL("futex"), ALLOW_SYSCALL("lseek"),
       ALLOW_SYSCALL("set_tid_address"), ALLOW_SYSCALL("set_robust_list"),
       ALLOW_SYSCALL("rt_sigaction"), ALLOW_SYSCALL("rt_sigprocmask"),
       ALLOW_SYSCALL("getrlimit"), ALLOW_SYSCALL("arch_prctl"),
       ALLOW_SYSCALL("access"), ALLOW_SYSCALL("fstatfs"), ALLOW_SYSCALL("readlink"),
       ALLOW_SYSCALL("fadvise64"), ALLOW_SYSCALL("clock_gettime"),
       ALLOW_SYSCALL("sysinfo"),
       ALLOW_SYSCALL("getuid"), ALLOW_SYSCALL("geteuid"), ALLOW_SYSCALL("getgid"),
       ALLOW_SYSCALL("getegid"),
       ALLOW_SYSCALL("fcntl"),
       ALLOW_SYSCALL("mremap"), ALLOW_SYSCALL("statfs"), ALLOW_SYSCALL("readlink"),
       ALLOW_SYSCALL("getpid"), ALLOW_SYSCALL("gettid"), ALLOW_SYSCALL("tgkill"),
       ALLOW_SYSCALL("ftruncate"), ALLOW_SYSCALL("ioctl"),
       ALLOW_SYSCALL("sched_yield"),
       ALLOW_SYSCALL("clone"), ALLOW_SYSCALL("wait4"), ALLOW_SYSCALL("getrandom"),
       ALLOW_SYSCALL("shmctl"), ALLOW_SYSCALL("prlimit64"), ALLOW_SYSCALL("dup"),
       ALLOW_SYSCALL("chmod"), ALLOW_SYSCALL("chown"), ALLOW_SYSCALL("newfstatat"),
       ALLOW_SYSCALL("pread64"), ALLOW_SYSCALL("getdents64"),
       TRACE_SYSCALL("mknod"), TRACE_SYSCALL("link"), TRACE_SYSCALL("rename"),
       TRACE_SYSCALL("execve"), TRACE_SYSCALL("mkdir"), TRACE_SYSCALL("unlink"),
       TRACE_SYSCALL("open"), TRACE_SYSCALL("openat"),
       KILL_PROCESS >>

\* webtry/fiddle_secwrap.cpp, install_syscall_filter: filter[].
webtry_rules ==
    << VALIDATE_ARCHITECTURE, EXAMINE_SYSCALL,
       ALLOW_SYSCALL("exit_group"), ALLOW_SYSCALL("exit"), ALLOW_SYSCALL("stat"),
       ALLOW_SYSCALL("fstat"), ALLOW_SYSCALL("read"), ALLOW_SYSCALL("write"),
       ALLOW_SYSCALL("getdents"), ALLOW_SYSCALL("close"), ALLOW_SYSCALL("mmap"),
       ALLOW_SYSCALL("mprotect"), ALLOW_SYSCALL("munmap"), ALLOW_SYSCALL("brk"),
       ALLOW_SYSCALL("futex"), ALLOW_SYSCALL("lseek"),
       ALLOW_SYSCALL("set_tid_address"), ALLOW_SYSCALL("set_robust_list"),
       ALLOW_SYSCALL("rt_sigaction"), ALLOW_SYSCALL("rt_sigprocmask"),
       ALLOW_SYSCALL("getrlimit"), ALLOW_SYSCALL("arch_prctl"),
       ALLOW_SYSCALL("access"),
       TRACE_SYSCALL("execve"),
       TRACE_OPENS_FOR_READS_ONLY("open", 1),
       TRACE_OPENS_FOR_READS_ONLY("openat", 2),
       KILL_PROCESS >>

\* webtry/main.cpp, install_syscall_filter: filter[].
webtry_main_rules ==
    << EXAMINE_SYSCALL,
       ALLOW_SYSCALL("exit_group"), ALLOW_SYSCALL("exit"), ALLOW_SYSCALL("fstat"),
       ALLOW_SYSCALL("read"), ALLOW_SYSCALL("write"), ALLOW_SYSCALL("close"),
       ALLOW_SYSCALL("mmap"), ALLOW_SYSCALL("munmap"), ALLOW_SYSCALL("brk"),
       ALLOW_SYSCALL("futex"), ALLOW_SYSCALL("lseek"),
       KILL_PROCESS >>

Rules(p) ==
    CASE p = "fiddlek"     -> fiddlek_rules
      [] p = "webtry"      -> webtry_rules
      [] p = "webtry_main" -> webtry_main_rules

\* struct sock_fprog prog = { sizeof(filter)/sizeof(filter[0]), filter }.
fiddlek_prog == Flatten(fiddlek_rules)
webtry_prog == Flatten(webtry_rules)
webtry_main_prog == Flatten(webtry_main_rules)
Prog(p) ==
    CASE p = "fiddlek"     -> fiddlek_prog
      [] p = "webtry"      -> webtry_prog
      [] p = "webtry_main" -> webtry_main_prog

(***************************************************************************)
(* The kernel's BPF interpreter for seccomp filters.                       *)
(***************************************************************************)
\* The 32-bit word of struct seccomp_data that BPF_LD+BPF_W+BPF_ABS reads at off.
DataWord(data, off) ==
    CASE off[1] = "nr"   -> data.nr
      [] off[1] = "arch" -> data.arch
      [] off[1] = "args" -> data.args[off[2] + 1]

\* A & k for a mask k = 2^n - 1 (the only masks the programs use: O_ACCMODE).
BitAnd(a, k) == a % (k + 1)

\* One instruction: the machine [pc, acc, ret] after executing prog[pc].
BpfStep(prog, data, m) ==
    LET ins == prog[m.pc] IN
    CASE ins.code = "LD"  -> [pc |-> m.pc + 1, acc |-> DataWord(data, ins.off), ret |-> "none"]
      [] ins.code = "AND" -> [pc |-> m.pc + 1, acc |-> BitAnd(m.acc, ins.k), ret |-> "none"]
      [] ins.code = "JEQ" -> [pc |-> m.pc + 1 + (IF m.acc = ins.k THEN ins.jt ELSE ins.jf),
                              acc |-> m.acc, ret |-> "none"]
      [] ins.code = "RET" -> [pc |-> m.pc, acc |-> m.acc, ret |-> ins.ret]

RECURSIVE BpfRun(_, _, _)
BpfRun(prog, data, m) ==
    IF m.ret # "none" THEN m.ret
    ELSE IF m.pc > Len(prog) THEN "INVALID"
    ELSE BpfRun(prog, data, BpfStep(prog, data, m))

\* The verdict of an installed program on one syscall entry.
FilterVerdict(prog, data) == BpfRun(prog, data, [pc |-> 1, acc |-> 0, ret |-> "none"])

(***************************************************************************)
(* C strings.  A byte is a one-character string, NUL is the zero byte; a   *)
(* char* is the sequence of bytes at the pointer, its string is the bytes  *)
(* before the first NUL.                                                   *)
(***************************************************************************)
NUL == "NUL"

\* The bytes of buf before its first NUL (all of buf if it holds none).
RECURSIVE CStr(_)
CStr(buf) ==
    IF buf = <<>> \/ Head(buf) = NUL THEN <<>> ELSE <<Head(buf)>> \o CStr(Tail(buf))

\* s[i] for a NUL-terminated string whose bytes before the NUL are s.
CharAt(s, i) == IF i <= Len(s) THEN s[i] ELSE NUL

\* strlen(s).
strlen(s) == Len(s)

\* strncmp(a, b, n) = 0: byte by byte, stopping at the first difference, at a NUL
\* or after n bytes.
RECURSIVE strncmp_from(_, _, _, _)
strncmp_from(a, b, n, i) ==
    IF i > n THEN 0
    ELSE IF CharAt(a, i) # CharAt(b, i) THEN 1
    ELSE IF CharAt(a, i) = NUL THEN 0
    ELSE strncmp_from(a, b, n, i + 1)
strncmp(a, b, n) == strncmp_from(a, b, n, 1)

strcmp_up_to_first(a, b) == strncmp(a, b, strlen(a))
\* strcmp(a, b): 0 when equal, nonzero otherwise.
RECURSIVE strcmp_from(_, _, _)
strcmp_from(a, b, i) ==
    IF CharAt(a, i) # CharAt(b, i) THEN 1
    ELSE IF CharAt(a, i) = NUL THEN 0
    ELSE strcmp_from(a, b, i + 1)
strcmp(a, b) == strcmp_from(a, b, 1)

\* strstr(haystack, needle) != NULL.
strstr(haystack, needle) ==
    \E i \in 1..(Len(haystack) - Len(needle) + 1) :
        \A j \in 1..Len(needle) : haystack[i + j - 1] = needle[j]

(***************************************************************************)
(* Policy tables: the prefix lists of fiddlek/cpp/fiddle_secwrap.cpp (the  *)
(* entries before the terminating NULL) and of webtry/fiddle_secwrap.cpp.  *)
(***************************************************************************)
mkdir_allowed_prefixes ==
    << <<"/", "t", "m", "p">>,
       <<"/", "v", "a", "r", "/", "c", "a", "c", "h", "e", "/", "f", "o", "n", "t", "c", "o", "n", "f", "i", "g">> >>

unlink_allowed_prefixes == << <<"/", "t", "m", "p">> >>

writing_allowed_prefixes ==
    << <<"/", "t", "m", "p", "/">>,
       <<"/", "v", "a", "r", "/", "c", "a", "c", "h", "e", "/", "f", "o", "n", "t", "c", "o", "n", "f", "i", "g">> >>

link_allowed_prefixes == << <<"/", "t", "m", "p", "/">> >>

mknod_allowed_prefixes == << <<"/", "t", "m", "p", "/">> >>

rename_allowed_prefixes == << <<"/", "t", "m", "p", "/">> >>

readonly_allowed_prefixes_without_any ==
    << <<"/", "e", "t", "c", "/", "f", "o", "n", "t", "s">>,
       <<"/", "e", "t", "c", "/", "f", "i", "d", "d", "l", "e", "/">>,
       <<"/", "e", "t", "c", "/", "g", "l", "v", "n", "d", "/">>,
       <<"/", "e", "t", "c", "/", "l", "d", ".", "s", "o", ".", "c", "a", "c", "h", "e">>,
       <<"/", "l", "i", "b", "/">>,
       <<"/", "m", "n", "t", "/", "p", "d", "0", "/">>,
       <<"/", "t", "m", "p", "/">>,
       <<"/", "u", "s", "r", "/", "l", "i", "b", "/">>,
       <<"/", "u", "s", "r", "/", "l", "o", "c", "a", "l", "/", "s", "h", "a", "r", "e", "/", "f", "o", "n", "t", "s">>,
       <<"/", "u", "s", "r", "/", "l", "o", "c", "a", "l", "/", "l", "i", "b">>,
       <<"/", "u", "s", "r", "/", "s", "h", "a", "r", "e", "/">>,
       <<"/", "s", "y", "s", "/", "d", "e", "v", "i", "c", "e", "s", "/">>,
       <<"/", "v", "a", "r", "/", "c", "a", "c", "h", "e", "/", "f", "o", "n", "t", "c", "o", "n", "f", "i", "g">>,
       <<"s", "k", "i", "a", ".", "c", "o", "n", "f">> >>
readonly_allowed_prefixes ==
    << <<>>,
       <<"/", "e", "t", "c", "/", "f", "o", "n", "t", "s">>,
       <<"/", "e", "t", "c", "/", "f", "i", "d", "d", "l", "e", "/">>,
       <<"/", "e", "t", "c", "/", "g", "l", "v", "n", "d", "/">>,
       <<"/", "e", "t", "c", "/", "l", "d", ".", "s", "o", ".", "c", "a", "c", "h", "e">>,
       <<"/", "l", "i", "b", "/">>,
       <<"/", "m", "n", "t", "/", "p", "d", "0", "/">>,
       <<"/", "t", "m", "p", "/">>,
       <<"/", "u", "s", "r", "/", "l", "i", "b", "/">>,
       <<"/", "u", "s", "r", "/", "l", "o", "c", "a", "l", "/", "s", "h", "a", "r", "e", "/", "f", "o", "n", "t", "s">>,
       <<"/", "u", "s", "r", "/", "l", "o", "c", "a", "l", "/", "l", "i", "b">>,
       <<"/", "u", "s", "r", "/", "s", "h", "a", "r", "e", "/">>,
       <<"/", "s", "y", "s", "/", "d", "e", "v", "i", "c", "e", "s", "/">>,
       <<"/", "v", "a", "r", "/", "c", "a", "c", "h", "e", "/", "f", "o", "n", "t", "c", "o", "n", "f", "i", "g">>,
       <<"s", "k", "i", "a", ".", "c", "o", "n", "f">> >>

\* webtry do_trace, SYS_open: const char *allowed_prefixes[].
webtry_open_allowed_prefixes ==
    << <<"/", "u", "s", "r", "/", "s", "h", "a", "r", "e", "/", "f", "o", "n", "t", "s">>,
       <<"/", "e", "t", "c", "/", "l", "d", ".", "s", "o", ".", "c", "a", "c", "h", "e">>,
       <<"/", "l", "i", "b", "/">>,
       <<"/", "u", "s", "r", "/", "l", "i", "b", "/">>,
       <<"s", "k", "i", "a", ".", "c", "o", "n", "f">> >>

\* webtry do_trace, SYS_openat: the single prefix given to strncmp.
webtry_openat_allowed_prefixes ==
    << <<"/", "u", "s", "r", "/", "s", "h", "a", "r", "e", "/", "f", "o", "n", "t", "s">> >>

\* The needle of strstr: "../" in fiddlek, ".." in webtry.
DotDotSlash == <<".", ".", "/">>
DotDot == <<".", ".">>

(***************************************************************************)
(* read_string: copies a NUL-terminated string out of the tracee, one      *)
(* PTRACE_PEEKDATA word at a time.                                         *)
(***************************************************************************)
\* The bytes mapped in the tracee from address addr on (none if addr is not mapped).
Region(m, addr) == IF addr \in DOMAIN m THEN m[addr] ELSE <<>>

\* ptrace(PTRACE_PEEKDATA, child, addr + off): the word at that address.  It fails
\* with ESRCH when the tracee is not in a ptrace-stop, with EIO when the word is not
\* wholly mapped.
PeekData(region, stopped, off) ==
    IF ~stopped THEN [ok |-> FALSE, errno |-> "ESRCH", word |-> <<>>]
    ELSE IF off + WordSize > Len(region) THEN [ok |-> FALSE, errno |-> "EIO", word |-> <<>>]
    ELSE [ok |-> TRUE, errno |-> "0", word |-> SubSeq(region, off + 1, off + WordSize)]

\* errno after a ptrace(PTRACE_PEEKDATA) call made with errno = err.  A failed call
\* sets it; a successful call leaves it as it was, unless the C library's wrapper
\* zeroes it on success.
ErrnoAfterPeek(peek, err, clears) ==
    IF ~peek.ok THEN peek.errno ELSE IF clears THEN "0" ELSE err

\* memchr(&tmp, 0, sizeof tmp) != NULL.
memchr_nul(word) == \E i \in 1..Len(word) : word[i] = NUL

\* read_string before its loop: an empty buffer of INITIAL_ALLOCATION bytes, nothing
\* read, errno as the caller left it.
read_string_entry(err) ==
    [val |-> <<>>, read |-> 0, allocated |-> INITIAL_ALLOCATION, errno |-> err,
     done |-> FALSE]

\* One iteration of the while(1) loop of read_string; st.val holds the st.read bytes
\* copied so far.  done: the iteration ended in a break.
read_string_iter(region, stopped, clears, st) ==
    LET allocated2 == IF st.read + WordSize > st.allocated THEN st.allocated * 2
                      ELSE st.allocated
        peek == PeekData(region, stopped, st.read)
        err2 == ErrnoAfterPeek(peek, st.errno, clears)
    IN
    IF err2 # "0"
    THEN [val |-> st.val \o <<NUL>>, errno |-> err2, allocated |-> allocated2,
          read |-> st.read, done |-> TRUE]
    ELSE IF memchr_nul(peek.word)
    THEN [val |-> st.val \o peek.word, errno |-> err2, allocated |-> allocated2,
          read |-> st.read, done |-> TRUE]
    ELSE [val |-> st.val \o peek.word, errno |-> err2, allocated |-> allocated2,
          read |-> st.read + WordSize, done |-> FALSE]

\* The while(1) loop of read_string, from the loop state st to its break.
RECURSIVE read_string_loop(_, _, _, _)
read_string_loop(region, stopped, clears, st) ==
    LET next == read_string_iter(region, stopped, clears, st) IN
    IF next.done THEN next ELSE read_string_loop(region, stopped, clears, next)

\* read_string(child, addr), called with errno = err: the buffer it returns (the
\* bytes written to it), the errno it leaves, and the size of the allocation.
read_string(m, stopped, clears, addr, err) ==
    read_string_loop(Region(m, addr), stopped, clears, read_string_entry(err))

(***************************************************************************)
(* The supervisor's checks.                                                *)
(***************************************************************************)
child_fail_no_kill(v) == [kill |-> FALSE, exit |-> IF v = "fiddlek" THEN -1 ELSE 1]
child_fail_exit_1(v) == [kill |-> TRUE, exit |-> 1]
\* child_fail(child, message) / CHILD_FAIL(message): kill(child, SIGKILL), then
\* exit(-1) in fiddlek, exit(1) in webtry.
child_fail(v) == [kill |-> TRUE, exit |-> IF v = "fiddlek" THEN -1 ELSE 1]

\* The status a process that called exit(code) or returned code from main leaves.
ExitStatus(code) == code % 256

RECURSIVE prefix_loop_strlen_name(_, _, _)
prefix_loop_strlen_name(name, prefixes, i) ==
    IF i > Len(prefixes) THEN FALSE
    ELSE IF strncmp(prefixes[i], name, strlen(name)) = 0 THEN TRUE
    ELSE prefix_loop_strlen_name(name, prefixes, i + 1)
\* The for loop of test_against_prefixes over prefixes[i..]: okay.
RECURSIVE prefix_loop(_, _, _)
prefix_loop(name, prefixes, i) ==
    IF i > Len(prefixes) THEN FALSE
    ELSE IF strncmp(prefixes[i], name, strlen(prefixes[i])) = 0 THEN TRUE
    ELSE prefix_loop(name, prefixes, i + 1)

test_against_prefixes_no_dotdot(name, prefixes) ==
    IF ~prefix_loop(name, prefixes, 1) THEN "Invalid filename." ELSE ""
\* test_against_prefixes(child, caller, name, prefixes): "" when it returns, else
\* the message it gives child_fail.
test_against_prefixes(name, prefixes) ==
    IF strstr(name, DotDotSlash) THEN "No relative paths..."
    ELSE IF ~prefix_loop(name, prefixes, 1) THEN "Invalid filename."
    ELSE ""

\* What the handling of one seccomp stop found: the message given to child_fail
\* ("" if none), the strings read (in order), the flags read, the errno left.
TrapResult(fail, names, flags, err) ==
    [fail |-> fail, names |-> names, flags |-> flags, errno |-> err]

fiddlek_one_path_at_rsi(r, m, stopped, clears, err, addr, flags, prefixes) ==
    LET s == read_string(m, stopped, clears, r.rsi, err)
        name == CStr(s.val)
    IN TrapResult(test_against_prefixes(name, prefixes), <<name>>, flags, s.errno)
\* fiddlek do_trace, one path argument checked against one list.
fiddlek_one_path(r, m, stopped, clears, err, addr, flags, prefixes) ==
    LET s == read_string(m, stopped, clears, addr, err)
        name == CStr(s.val)
    IN TrapResult(test_against_prefixes(name, prefixes), <<name>>, flags, s.errno)

fiddlek_two_paths_first_only(r, m, stopped, clears, err, prefixes) ==
    LET first == fiddlek_one_path(r, m, stopped, clears, err, r.rdi, 0, prefixes)
        second == fiddlek_one_path(r, m, stopped, clears, first.errno, r.rsi, 0, prefixes)
    IN IF first.fail # "" THEN first
       ELSE TrapResult("", first.names \o second.names, 0, second.errno)
\* fiddlek do_trace, link and rename: the path at rdi, then the path at rsi.
fiddlek_two_paths(r, m, stopped, clears, err, prefixes) ==
    LET first == fiddlek_one_path(r, m, stopped, clears, err, r.rdi, 0, prefixes)
        second == fiddlek_one_path(r, m, stopped, clears, first.errno, r.rsi, 0, prefixes)
    IN IF first.fail # "" THEN first
       ELSE TrapResult(second.fail, first.names \o second.names, 0, second.errno)

fiddlek_open_prefixes_low_bit(flags) ==
    IF O_RDONLY # BitAnd(flags, 1) THEN writing_allowed_prefixes
    ELSE readonly_allowed_prefixes
\* The prefix list an open with these flags is checked against.
fiddlek_open_prefixes(flags) ==
    IF O_RDONLY # BitAnd(flags, O_ACCMODE) THEN writing_allowed_prefixes
    ELSE readonly_allowed_prefixes

\* fiddlek do_trace: the if/else-if chain on regs.orig_rax of a seccomp stop.
fiddlek_dispatch(r, m, stopped, clears, err, allowed) ==
    LET syscall == r.orig_rax IN
    IF syscall = SYS["execve"] THEN
        LET s == read_string(m, stopped, clears, r.rdi, err)
            name == CStr(s.val)
        IN TrapResult(IF strcmp(name, allowed) # 0 THEN "Invalid exec." ELSE "",
                      <<name>>, 0, s.errno)
    ELSE IF syscall = SYS["open"] THEN
        fiddlek_one_path(r, m, stopped, clears, err, r.rdi, r.rsi, fiddlek_open_prefixes(r.rsi))
    ELSE IF syscall = SYS["openat"] THEN
        fiddlek_one_path(r, m, stopped, clears, err, r.rsi, r.rdx, fiddlek_open_prefixes(r.rdx))
    ELSE IF syscall = SYS["mkdir"] THEN
        fiddlek_one_path(r, m, stopped, clears, err, r.rdi, 0, mkdir_allowed_prefixes)
    ELSE IF syscall = SYS["unlink"] THEN
        fiddlek_one_path(r, m, stopped, clears, err, r.rdi, 0, unlink_allowed_prefixes)
    ELSE IF syscall = SYS["mknod"] THEN
        fiddlek_one_path(r, m, stopped, clears, err, r.rdi, 0, mknod_allowed_prefixes)
    ELSE IF syscall = SYS["link"] THEN
        fiddlek_two_paths(r, m, stopped, clears, err, link_allowed_prefixes)
    ELSE IF syscall = SYS["rename"] THEN
        fiddlek_two_paths(r, m, stopped, clears, err, rename_allowed_prefixes)
    ELSE TrapResult("Invalid system call.", <<>>, 0, err)

webtry_open_whole_name(m, stopped, clears, err, addr, flags, prefixes, message) ==
    LET s == read_string(m, stopped, clears, addr, err)
        name == CStr(s.val)
    IN TrapResult(IF strstr(name, DotDot) THEN "No relative paths..."
                  ELSE IF O_RDONLY # BitAnd(flags, O_ACCMODE) THEN "No writing to files..."
                  ELSE IF \A i \in 1..Len(prefixes) : strcmp(name, prefixes[i]) # 0
                       THEN message
                  ELSE "",
                  <<name>>, flags, s.errno)
\* webtry do_trace, SYS_open and SYS_openat: the ".." test, the access-mode test,
\* then the prefix test.
webtry_open(m, stopped, clears, err, addr, flags, prefixes, message) ==
    LET s == read_string(m, stopped, clears, addr, err)
        name == CStr(s.val)
    IN TrapResult(IF strstr(name, DotDot) THEN "No relative paths..."
                  ELSE IF O_RDONLY # BitAnd(flags, O_ACCMODE) THEN "No writing to files..."
                  ELSE IF ~prefix_loop(name, prefixes, 1) THEN message
                  ELSE "",
                  <<name>>, flags, s.errno)

webtry_dispatch_kills_others(r, m, stopped, clears, err, allowed) ==
    LET syscall == r.orig_rax IN
    IF syscall = SYS["execve"] THEN
        LET s == read_string(m, stopped, clears, r.rdi, err)
            name == CStr(s.val)
        IN TrapResult(IF strcmp(name, allowed) # 0 THEN "Invalid exec." ELSE "",
                      <<name>>, 0, s.errno)
    ELSE IF syscall = SYS["open"] THEN
        webtry_open(m, stopped, clears, err, r.rdi, r.rsi,
                    webtry_open_allowed_prefixes, "Invalid open.")
    ELSE IF syscall = SYS["openat"] THEN
        webtry_open(m, stopped, clears, err, r.rsi, r.rdx,
                    webtry_openat_allowed_prefixes, "Invalid openat.")
    ELSE TrapResult("Invalid system call.", <<>>, 0, err)
\* webtry do_trace: the if/else-if chain on regs.orig_rax of a seccomp stop.  The
\* final else only logs ("WEIRD SYSTEM CALL").
webtry_dispatch(r, m, stopped, clears, err, allowed) ==
    LET syscall == r.orig_rax IN
    IF syscall = SYS["execve"] THEN
        LET s == read_string(m, stopped, clears, r.rdi, err)
            name == CStr(s.val)
        IN TrapResult(IF strcmp(name, allowed) # 0 THEN "Invalid exec." ELSE "",
                      <<name>>, 0, s.errno)
    ELSE IF syscall = SYS["open"] THEN
        webtry_open(m, stopped, clears, err, r.rdi, r.rsi,
                    webtry_open_allowed_prefixes, "Invalid open.")
    ELSE IF syscall = SYS["openat"] THEN
        webtry_open(m, stopped, clears, err, r.rsi, r.rdx,
                    webtry_openat_allowed_prefixes, "Invalid openat.")
    ELSE TrapResult("", <<>>, 0, err)

dispatch_openat_path_in_rdi(v, r, m, stopped, clears, err, allowed) ==
    LET r2 == IF r.orig_rax = SYS["openat"] THEN [r EXCEPT !.rsi = r.rdi] ELSE r IN
    IF v = "fiddlek" THEN fiddlek_dispatch(r2, m, stopped, clears, err, allowed)
    ELSE webtry_dispatch(r2, m, stopped, clears, err, allowed)
\* do_trace of the variant built: the check of one seccomp stop.
dispatch(v, r, m, stopped, clears, err, allowed) ==
    IF v = "fiddlek" THEN fiddlek_dispatch(r, m, stopped, clears, err, allowed)
    ELSE webtry_dispatch(r, m, stopped, clears, err, allowed)

(***************************************************************************)
(* FilterSpec: the BPF machine, one instruction per step.                  *)
(***************************************************************************)
\* Values of args[1], args[2] of seccomp_data tried on the web try program
\* (the only one that loads an argument).  They include access modes with and
\* without extra flag bits and values equal to syscall numbers.
FilterArgs == { <<0, 0>>, <<1, 0>>, <<0, 2>>, <<64 + 1, 257>>, <<257, 64>>, <<64 + 512, 1>> }

FilterInputs(p) ==
    { [arch |-> a, nr |-> n, args |-> <<0, x[1], x[2], 0, 0, 0>>] :
        a \in {ARCH_NR, OTHER_ARCH}, n \in 0..MaxNr,
        x \in IF p = "webtry" THEN FilterArgs ELSE { <<0, 0>> } }

\* The supervisor side is not started in FilterSpec, the BPF machine is off in Spec.
NoStatus == [kind |-> "uninit", code |-> 0, sig |-> "none", event |-> "none"]
NoRegs == [orig_rax |-> 0, rdi |-> 0, rsi |-> 0, rdx |-> 0, arch |-> ARCH_NR]
NoTrap == [kind |-> "none", regs |-> "none", nr |-> 0, flags |-> 0, names |-> <<>>,
           fail |-> "", conts |-> 0, kills |-> 0, reqs |-> 0, data |-> -1,
           accepted |-> <<>>]

SysOff ==
    /\ variant = "off" /\ libc_clears_errno = FALSE /\ allowed_exec = <<>>
    /\ ppc = "off" /\ presult = 0 /\ status = NoStatus /\ errno = "0"
    /\ cpc = "off" /\ tstate = "none" /\ pending = NoStatus
    /\ opts = FALSE /\ nnp = FALSE /\ filter = "none"
    /\ regs = NoRegs /\ mem = <<>> /\ trap = NoTrap /\ childLog = <<>>

FilterOff ==
    /\ fprog = "off" /\ fdata = [arch |-> 0, nr |-> 0, args |-> <<>>]
    /\ fpc = 0 /\ facc = 0 /\ fret = "none" /\ fNrLoaded = FALSE

UnitOff == uop = "off" /\ uin = <<>> /\ uout = <<>>

FilterInit ==
    /\ fprog \in {"fiddlek", "webtry", "webtry_main"}
    /\ fdata \in FilterInputs(fprog)
    /\ fpc = 1 /\ facc = 0 /\ fret = "none" /\ fNrLoaded = FALSE
    /\ SysOff /\ UnitOff

FRunning == fprog # "off" /\ fret = "none" /\ fpc \in 1..Len(Prog(fprog))

FApply ==
    LET m == BpfStep(Prog(fprog), fdata, [pc |-> fpc, acc |-> facc, ret |-> fret]) IN
    /\ fpc' = m.pc /\ facc' = m.acc /\ fret' = m.ret
    /\ fNrLoaded' = (fNrLoaded \/ (Prog(fprog)[fpc].code = "LD" /\ Prog(fprog)[fpc].off = syscall_nr))
    /\ UNCHANGED <<fprog, fdata>>
    /\ UNCHANGED <<svars, uvars>>

FLoad == FRunning /\ Prog(fprog)[fpc].code = "LD"  /\ FApply
FAnd  == FRunning /\ Prog(fprog)[fpc].code = "AND" /\ FApply
FJump == FRunning /\ Prog(fprog)[fpc].code = "JEQ" /\ FApply
FRet  == FRunning /\ Prog(fprog)[fpc].code = "RET" /\ FApply

FilterNext == FLoad \/ FAnd \/ FJump \/ FRet

FilterSpec == FilterInit /\ [][FilterNext]_vars

(***************************************************************************)
(* Spec: the supervisor, the child and the kernel between them.            *)
(***************************************************************************)
\* ---- inputs: what the child passes to the kernel ----
\* argv[1] of the supervisor: a path with a slash, and a bare file name (which
\* execvp resolves through PATH).
ExecNames == { <<"/", "r">>, <<"r">> }

\* Mapped regions of tracee memory that path arguments point to: the bytes from
\* the pointer to the end of the mapping.
img_tmp_a    == <<"/", "t", "m", "p", "/", "a", NUL, "x">>
img_dotdot   == <<"/", "t", "m", "p", "/", ".", ".", "/", "x", NUL, "x", "x", "x", "x", "x", "x">>
img_passwd   == <<"/", "e", "t", "c", "/", "p", "a", "s", "s", "w", "d", NUL, "x", "x", "x", "x">>
img_tmp      == <<"/", "t", "m", "p", NUL, "x", "x", "x">>
img_r        == <<"/", "r", NUL, "x", "x", "x", "x", "x">>
img_lib_x    == <<"/", "l", "i", "b", "/", "x", NUL, "x">>
img_lib_dots == <<"/", "l", "i", "b", "/", ".", ".", "a", NUL, "x", "x", "x", "x", "x", "x", "x">>
img_fonts    == <<"/", "u", "s", "r", "/", "s", "h", "a", "r", "e", "/", "f", "o", "n", "t", "s", NUL, "x", "x", "x", "x", "x", "x", "x">>
\* eight bytes without a NUL, the mapping ends after them
img_no_nul   == <<"/", "t", "m", "p", "/", "a", "b", "c">>
\* the NUL is mapped, the rest of its word is not
img_short    == <<"/", "t", "m", "p", "/", "a", NUL>>

Images == { img_tmp_a, img_dotdot, img_passwd, img_tmp, img_r,
            img_lib_x, img_lib_dots, img_fonts, img_no_nul, img_short }
\* Regions tried for the two paths of link and rename.
Images2 == { img_tmp_a, img_dotdot, img_passwd }

\* The addresses of the child's two path buffers; 0 is NULL, which is never mapped.
BufAddr(i) == 4096 * i
NoMem == [a \in {} |-> <<>>]

\* A path argument: the pointer and what is mapped there.
PathArgs(i, images) ==
    { [ptr |-> 0, m |-> NoMem] } \cup
    { [ptr |-> BufAddr(i), m |-> (BufAddr(i) :> img)] : img \in images }

\* O_RDONLY, O_WRONLY, O_RDWR|O_CREAT, and the access mode 3.
PayloadFlags == { O_RDONLY, 1, 64 + 2, 3 }
\* dirfd of openat: AT_FDCWD and an open descriptor.
DirFds == { -100, 3 }

Call(arch, nr, rdi, rsi, rdx, m) ==
    [arch |-> arch, orig_rax |-> nr, rdi |-> rdi, rsi |-> rsi, rdx |-> rdx, m |-> m]

\* The syscalls the payload may make.
PayloadCalls ==
    { Call(ARCH_NR, SYS["open"], p.ptr, f, 0, p.m) :
        p \in PathArgs(1, Images), f \in PayloadFlags }
    \cup { Call(ARCH_NR, SYS["openat"], d, p.ptr, f, p.m) :
        d \in DirFds, p \in PathArgs(1, Images), f \in PayloadFlags }
    \cup { Call(ARCH_NR, SYS[n], p.ptr, 0, 0, p.m) :
        n \in {"mkdir", "unlink", "mknod", "execve"}, p \in PathArgs(1, Images) }
    \cup { Call(ARCH_NR, SYS[n], p.ptr, q.ptr, 0, p.m @@ q.m) :
        n \in {"link", "rename"}, p \in PathArgs(1, Images2), q \in PathArgs(2, Images2) }
    \cup { Call(ARCH_NR, SYS[n], 0, 0, 0, NoMem) : n \in {"read", "socket", "kill"} }
    \cup { Call(OTHER_ARCH, SYS["read"], 0, 0, 0, NoMem) }

\* ---- wait statuses ----
Exited(code)   == [kind |-> "exited", code |-> code, sig |-> "none", event |-> "none"]
Signaled(sig)  == [kind |-> "signaled", code |-> 0, sig |-> sig, event |-> "none"]
Stopped(sig, event) == [kind |-> "stopped", code |-> 0, sig |-> sig, event |-> event]

WIFEXITED(st) == st.kind = "exited"
WIFSIGNALED(st) == st.kind = "signaled"
\* status>>8 == (SIGTRAP | (PTRACE_EVENT_SECCOMP<<8))
IsSeccompStop(st) == st.kind = "stopped" /\ st.sig = "SIGTRAP" /\ st.event = "seccomp"

\* ---- the kernel ----
\* The seccomp verdict on a syscall entry of the child.
Verdict(f, c) ==
    IF f = "none" THEN "ALLOW"
    ELSE FilterVerdict(Prog(f), [arch |-> c.arch, nr |-> c.orig_rax,
                                 args |-> <<c.rdi, c.rsi, c.rdx, 0, 0, 0>>])

SupervisorEnded == ppc \in {"returned", "exited"}

\* The child process ends: it becomes a zombie holding a wait status.
ChildDies(st) ==
    /\ tstate' = "zombie" /\ pending' = st /\ cpc' = "dead"
    /\ regs' = NoRegs /\ mem' = NoMem

\* The child enters a ptrace-stop that waitpid will report.
ChildStops(st) == tstate' = "stopped" /\ pending' = st

\* Syscall entry of the child with the filter's verdict.  KILL ends the child with
\* SIGSYS.  TRACE stops it with a seccomp event when the tracer asked for them; the
\* syscall is skipped (ENOSYS) otherwise and the child goes on at `skipped`.  ALLOW
\* lets it go on to the body.  At `body` the child is inside the syscall, about to
\* run its body, with its registers and the memory the arguments point to.
SyscallEntry(c, body, skipped) ==
    LET v == Verdict(filter, c)
        inside == /\ cpc' = body
                  /\ regs' = [orig_rax |-> c.orig_rax, rdi |-> c.rdi, rsi |-> c.rsi,
                              rdx |-> c.rdx, arch |-> c.arch]
                  /\ mem' = c.m
    IN
    IF v = "KILL" THEN
        ChildDies(Signaled("SIGSYS"))
    ELSE IF v = "TRACE" /\ opts /\ ~SupervisorEnded THEN
        ChildStops(Stopped("SIGTRAP", "seccomp")) /\ inside
    ELSE IF v = "TRACE" THEN
        cpc' = skipped /\ UNCHANGED <<tstate, pending, regs, mem>>
    ELSE
        inside /\ UNCHANGED <<tstate, pending>>

\* ---- the child: do_child ----
\* setLimits: the two setrlimit calls, in order.
setLimits == << "RLIMIT_CPU", "RLIMIT_AS" >>
\* install_syscall_filter: the two prctl calls, in order.
install_syscall_filter == << "NO_NEW_PRIVS", "SECCOMP" >>
do_child_filter_first ==
    << "PTRACE_TRACEME", "SIGSTOP" >> \o install_syscall_filter \o setLimits
    \o << "execvp" >>
do_child_without_filter ==
    << "PTRACE_TRACEME", "SIGSTOP" >> \o setLimits \o << "execvp" >>
do_child_without_stop ==
    << "PTRACE_TRACEME" >> \o setLimits \o install_syscall_filter \o << "execvp" >>
\* do_child: the calls it makes, in program order.
do_child ==
    << "PTRACE_TRACEME", "SIGSTOP" >> \o setLimits \o install_syscall_filter
    \o << "execvp" >>

\* The call that follows `call` in do_child.
ChildAfter(call) ==
    LET i == CHOOSE k \in 1..Len(do_child) : do_child[k] = call IN do_child[i + 1]

Logged(call, ok) == childLog' = Append(childLog, [call |-> call, ok |-> ok])

\* What the child's main returns (or passes to exit) on a setup failure.
ChildFailCode == IF variant = "fiddlek" THEN -1 ELSE 1

ChildRuns == tstate = "running"
SupervisorUnchanged == UNCHANGED <<variant, libc_clears_errno, allowed_exec, ppc, presult,
                                   status, errno, trap>>

\* ptrace(PTRACE_TRACEME, 0, 0, 0); on failure perror and exit.
ChildTraceme ==
    /\ ChildRuns /\ cpc = "PTRACE_TRACEME"
    /\ \E ok \in BOOLEAN :
        /\ Logged("PTRACE_TRACEME", ok)
        /\ IF ok THEN /\ cpc' = ChildAfter(cpc)
                      /\ UNCHANGED <<tstate, pending, regs, mem>>
                 ELSE ChildDies(Exited(ExitStatus(ChildFailCode)))
    /\ UNCHANGED <<opts, nnp, filter>>
    /\ SupervisorUnchanged /\ UNCHANGED <<fvars, uvars>>

\* kill(getpid(), SIGSTOP): a signal-delivery-stop reported to the tracer.
ChildSigstop ==
    /\ ChildRuns /\ cpc = "SIGSTOP"
    /\ Logged("SIGSTOP", TRUE)
    /\ ChildStops(Stopped("SIGSTOP", "none"))
    /\ cpc' = ChildAfter(cpc)
    /\ UNCHANGED <<opts, nnp, filter, regs, mem>>
    /\ SupervisorUnchanged /\ UNCHANGED <<fvars, uvars>>

\* setrlimit(RLIMIT_CPU, &n) and setrlimit(RLIMIT_AS, &n): a failure is only logged.
ChildSetrlimit ==
    /\ ChildRuns /\ cpc \in {"RLIMIT_CPU", "RLIMIT_AS"}
    /\ \E ok \in BOOLEAN : Logged(cpc, ok)
    /\ cpc' = ChildAfter(cpc)
    /\ UNCHANGED <<tstate, pending, opts, nnp, filter, regs, mem>>
    /\ SupervisorUnchanged /\ UNCHANGED <<fvars, uvars>>

\* prctl(PR_SET_NO_NEW_PRIVS, 1, 0, 0, 0); on failure install_syscall_filter
\* returns false and do_child returns.
ChildNoNewPrivs ==
    /\ ChildRuns /\ cpc = "NO_NEW_PRIVS"
    /\ \E ok \in BOOLEAN :
        /\ Logged("NO_NEW_PRIVS", ok)
        /\ IF ok THEN /\ nnp' = TRUE /\ cpc' = ChildAfter(cpc)
                      /\ UNCHANGED <<tstate, pending, regs, mem>>
                 ELSE /\ ChildDies(Exited(ExitStatus(ChildFailCode)))
                      /\ UNCHANGED nnp
    /\ UNCHANGED <<opts, filter>>
    /\ SupervisorUnchanged /\ UNCHANGED <<fvars, uvars>>

\* prctl(PR_SET_SECCOMP, SECCOMP_MODE_FILTER, &prog); the kernel refuses it without
\* NO_NEW_PRIVS and may refuse it otherwise (EINVAL).
ChildSeccomp ==
    /\ ChildRuns /\ cpc = "SECCOMP"
    /\ \E ok \in (IF nnp THEN BOOLEAN ELSE {FALSE}) :
        /\ Logged("SECCOMP", ok)
        /\ IF ok THEN /\ filter' = variant /\ cpc' = ChildAfter(cpc)
                      /\ UNCHANGED <<tstate, pending, regs, mem>>
                 ELSE /\ ChildDies(Exited(ExitStatus(ChildFailCode)))
                      /\ UNCHANGED filter
    /\ UNCHANGED <<opts, nnp>>
    /\ SupervisorUnchanged /\ UNCHANGED <<fvars, uvars>>

\* The directory execvp finds in PATH.
PathDir == <<"/", "b", "i", "n">>
\* The file name execvp passes to execve: args[0] itself if it holds a slash, else
\* the PATH directory, a slash and args[0].
ExecveName(file) ==
    IF \E i \in 1..Len(file) : file[i] = "/" THEN file ELSE PathDir \o <<"/">> \o file

\* The bytes of a string in memory: the string, its NUL, and what follows it up to
\* the end of the word.
InMemory(str) ==
    LET n == Len(str) + 1
        total == ((n + WordSize - 1) \div WordSize) * WordSize
    IN str \o <<NUL>> \o [i \in 1..(total - n) |-> "x"]

\* execvp(args[0], args): the execve syscall of the bootstrap, args[0] = argv[1].
ChildExec ==
    /\ ChildRuns /\ cpc = "execvp"
    /\ Logged("execvp", TRUE)
    /\ SyscallEntry(Call(ARCH_NR, SYS["execve"], BufAddr(1), 0, 0,
                         (BufAddr(1) :> InMemory(ExecveName(allowed_exec)))),
                    "exec_body", "exec_failed")
    /\ UNCHANGED <<opts, nnp, filter>>
    /\ SupervisorUnchanged /\ UNCHANGED <<fvars, uvars>>

\* The kernel runs the body of the syscall the child is inside.  An execve starts
\* the new image (with an exec event stop when the tracer asked for one) or fails
\* and returns; any other syscall returns to the payload.
SyscallBody ==
    /\ ChildRuns /\ cpc \in {"exec_body", "payload_body"}
    /\ regs' = NoRegs /\ mem' = NoMem
    /\ \/ /\ regs.orig_rax = SYS["execve"]
          /\ cpc' = "payload"
          /\ IF opts /\ ~SupervisorEnded
             THEN ChildStops(Stopped("SIGTRAP", "exec"))
             ELSE UNCHANGED <<tstate, pending>>
       \/ /\ regs.orig_rax = SYS["execve"]
          /\ cpc' = IF cpc = "exec_body" THEN "exec_failed" ELSE "payload"
          /\ UNCHANGED <<tstate, pending>>
       \/ /\ regs.orig_rax # SYS["execve"]
          /\ cpc' = "payload"
          /\ UNCHANGED <<tstate, pending>>
    /\ UNCHANGED <<opts, nnp, filter, childLog>>
    /\ SupervisorUnchanged /\ UNCHANGED <<fvars, uvars>>

ExecReturned_no_kill(v, f) ==
    IF Verdict(f, Call(ARCH_NR, SYS["exit_group"], 0, 0, 0, NoMem)) = "ALLOW"
    THEN Exited(ExitStatus(-1))
    ELSE Signaled("SIGSYS")
\* How the child ends once execvp has returned.
\* fiddlek: perror, kill(getpid(), SIGKILL), return -1; the kill is a syscall of the
\* filtered child.  webtry: return execvp(...), so main returns -1.
ExecReturned(v, f) ==
    IF v = "fiddlek"
    THEN IF Verdict(f, Call(ARCH_NR, SYS["kill"], 0, 0, 0, NoMem)) = "ALLOW"
         THEN Signaled("SIGKILL")
         ELSE Signaled("SIGSYS")
    ELSE IF Verdict(f, Call(ARCH_NR, SYS["exit_group"], 0, 0, 0, NoMem)) = "ALLOW"
         THEN Exited(ExitStatus(-1))
         ELSE Signaled("SIGSYS")

\* execvp returned: the child ends as ExecReturned says.  The history marks the
\* execvp as failed.
ChildExecFailed ==
    /\ ChildRuns /\ cpc = "exec_failed"
    /\ ChildDies(ExecReturned(variant, filter))
    /\ childLog' = [childLog EXCEPT ![Len(childLog)].ok = FALSE]
    /\ UNCHANGED <<opts, nnp, filter>>
    /\ SupervisorUnchanged /\ UNCHANGED <<fvars, uvars>>
\* ---- the payload: the target program, anything it likes ----
PayloadSyscall ==
    /\ ChildRuns /\ cpc = "payload"
    /\ \E c \in PayloadCalls : SyscallEntry(c, "payload_body", "payload")
    /\ UNCHANGED <<opts, nnp, filter, childLog>>
    /\ SupervisorUnchanged /\ UNCHANGED <<fvars, uvars>>

\* exit_group(code).
PayloadExit ==
    /\ ChildRuns /\ cpc = "payload"
    /\ \E code \in 0..MaxExit :
         IF Verdict(filter, Call(ARCH_NR, SYS["exit_group"], code, 0, 0, NoMem)) = "ALLOW"
         THEN ChildDies(Exited(code))
         ELSE ChildDies(Signaled("SIGSYS"))
    /\ UNCHANGED <<opts, nnp, filter, childLog>>
    /\ SupervisorUnchanged /\ UNCHANGED <<fvars, uvars>>

\* A signal is delivered to the traced payload: a signal-delivery-stop.  Without a
\* tracer the signal ends it.
PayloadSignal ==
    /\ ChildRuns /\ cpc = "payload"
    /\ IF SupervisorEnded
       THEN ChildDies(Signaled("SIGSEGV"))
       ELSE /\ ChildStops(Stopped("SIGSEGV", "none"))
            /\ UNCHANGED <<cpc, regs, mem>>
    /\ UNCHANGED <<opts, nnp, filter, childLog>>
    /\ SupervisorUnchanged /\ UNCHANGED <<fvars, uvars>>

\* What a second thread of the payload may put into a path buffer.
ThreadImages == { img_passwd, img_tmp_a }

\* A second thread of the payload writes the buffer a path argument of the first
\* thread's syscall points to, while the first thread is inside the syscall: in its
\* seccomp stop, or resumed and not yet at the kernel's read of the path.  The
\* payload has such a thread only where the filter allows clone; the thread is not
\* traced (the options set are TRACEEXEC and TRACESECCOMP) and a ptrace-stop stops
\* one thread only.
ThreadWrite ==
    /\ tstate \in {"running", "stopped"} /\ cpc = "payload_body"
    /\ Verdict(filter, Call(ARCH_NR, SYS["clone"], 0, 0, 0, NoMem)) = "ALLOW"
    /\ \E a \in DOMAIN mem : \E img \in ThreadImages :
         /\ img # mem[a]
         /\ mem' = [mem EXCEPT ![a] = img]
    /\ UNCHANGED <<cpc, tstate, pending, regs, opts, nnp, filter, childLog>>
    /\ SupervisorUnchanged /\ UNCHANGED <<fvars, uvars>>

\* The kernel ends the child with SIGKILL (the RLIMIT_CPU hard limit, the OOM
\* killer): possible whenever it is alive, also while it is in a ptrace-stop.
KernelKill ==
    /\ tstate \in {"running", "stopped"}
    /\ ChildDies(Signaled("SIGKILL"))
    /\ UNCHANGED <<opts, nnp, filter, childLog>>
    /\ SupervisorUnchanged /\ UNCHANGED <<fvars, uvars>>

\* ---- the supervisor: main and do_trace ----
ChildUnchanged == UNCHANGED <<cpc, nnp, filter, regs, mem, childLog>>
ConfigUnchanged == UNCHANGED <<variant, libc_clears_errno, allowed_exec>>

\* main: fork(); the child runs do_child, the parent do_trace.
Fork ==
    /\ ppc = "main"
    /\ ppc' = "wait_initial"
    /\ tstate' = "running" /\ cpc' = Head(do_child)
    /\ UNCHANGED <<presult, status, errno, pending, opts, nnp, filter, regs, mem, trap,
                   childLog>>
    /\ ConfigUnchanged /\ UNCHANGED <<fvars, uvars>>

\* main: fork() returns -1.  There is no check: child is -1, which is not 0, so the
\* parent branch runs do_trace(-1, argv[1]).
ForkFails ==
    /\ ppc = "main"
    /\ ppc' = "wait_initial"
    /\ tstate' = "fork_failed" /\ errno' = "EAGAIN"
    /\ UNCHANGED <<presult, status, cpc, pending, opts, nnp, filter, regs, mem, trap,
                   childLog>>
    /\ ConfigUnchanged /\ UNCHANGED <<fvars, uvars>>

\* The pid_t child of main and do_trace: 0 before fork, -1 when fork failed, else
\* the pid of the child (written 1).
child == IF tstate = "none" THEN 0 ELSE IF tstate = "fork_failed" THEN -1 ELSE 1

\* waitpid(child, &status, 0) returning a status: the kernel hands over the pending
\* status; a zombie is reaped.
WaitReturns ==
    /\ pending.kind # "uninit"
    /\ status' = pending /\ pending' = NoStatus
    /\ tstate' = IF tstate = "zombie" THEN "reaped" ELSE tstate
    /\ UNCHANGED errno

\* waitpid(child, &status, 0) with no child to wait for (it was reaped, or child is
\* -1 and the process has no children): -1, ECHILD, status as it was.
WaitFails ==
    /\ tstate \in {"reaped", "fork_failed"}
    /\ errno' = "ECHILD"
    /\ UNCHANGED <<status, pending, tstate>>

\* The history record of a stop just reported by waitpid.
NewTrap(st) ==
    [NoTrap EXCEPT !.kind = IF IsSeccompStop(st) THEN "seccomp"
                            ELSE IF st.kind = "stopped" THEN "other" ELSE "none"]

\* do_trace: the first waitpid, before the options are set.
WaitInitial ==
    /\ ppc = "wait_initial"
    /\ WaitReturns \/ WaitFails
    /\ ppc' = "setoptions"
    /\ trap' = NoTrap
    /\ UNCHANGED <<presult, opts>>
    /\ ChildUnchanged /\ ConfigUnchanged /\ UNCHANGED <<fvars, uvars>>

\* A ptrace request other than PEEKDATA on the child: it succeeds when the child is
\* in a ptrace-stop, and fails with ESRCH otherwise.
PtraceOk == tstate = "stopped"
ErrnoAfterPtrace == IF PtraceOk THEN errno ELSE "ESRCH"

\* ptrace(PTRACE_SETOPTIONS, child, 0, PTRACE_O_TRACEEXEC | PTRACE_O_TRACESECCOMP).
SetOptions ==
    /\ ppc = "setoptions"
    /\ opts' = PtraceOk
    /\ errno' = ErrnoAfterPtrace
    /\ ppc' = "cont_initial"
    /\ trap' = [trap EXCEPT !.reqs = @ + 1]
    /\ UNCHANGED <<presult, status, tstate, pending>>
    /\ ChildUnchanged /\ ConfigUnchanged /\ UNCHANGED <<fvars, uvars>>

\* ptrace(PTRACE_CONT, child, 0, data) with data = 0: the stopped child runs again,
\* no signal is delivered to it.  The history keeps the data argument (-1 while no
\* PTRACE_CONT was issued for the stop) and the strings that were read and accepted
\* for the stop.
PtraceCont(data) ==
    /\ tstate' = IF PtraceOk THEN "running" ELSE tstate
    /\ errno' = ErrnoAfterPtrace
    /\ trap' = [NoTrap EXCEPT !.kind = trap.kind, !.data = data,
                              !.accepted = trap.names,
                              !.reqs = trap.reqs + 1, !.conts = trap.conts + 1]

\* do_trace: the PTRACE_CONT before the loop.
ContInitial ==
    /\ ppc = "cont_initial"
    /\ PtraceCont(0)
    /\ ppc' = "wait_event"
    /\ UNCHANGED <<presult, status, pending, opts>>
    /\ ChildUnchanged /\ ConfigUnchanged /\ UNCHANGED <<fvars, uvars>>

\* The values a read of int status can give: its value, or any value while no
\* waitpid has written it (one for each way the tests on status can go).
ReadStatus(st) ==
    IF st.kind = "uninit"
    THEN { Exited(0), Signaled("SIGKILL"), Stopped("SIGTRAP", "seccomp"),
           Stopped("SIGSTOP", "none") }
    ELSE { st }

\* do_trace, top of the loop: waitpid, then the tests on status.  Where the loop
\* goes for a status: return 0, return 1, the seccomp branch, or straight to the
\* PTRACE_CONT at the bottom.
AfterWait_no_signal_test(st) ==
    IF WIFEXITED(st) THEN [pc |-> "returned", result |-> 0]
    ELSE IF IsSeccompStop(st) THEN [pc |-> "handle_trap", result |-> 0]
    ELSE [pc |-> "cont", result |-> 0]
AfterWait_all_stops_checked(st) ==
    IF WIFEXITED(st) THEN [pc |-> "returned", result |-> 0]
    ELSE IF WIFSIGNALED(st) THEN [pc |-> "returned", result |-> 1]
    ELSE [pc |-> "handle_trap", result |-> 0]
AfterWait(st) ==
    IF WIFEXITED(st) THEN [pc |-> "returned", result |-> 0]
    ELSE IF WIFSIGNALED(st) THEN [pc |-> "returned", result |-> 1]
    ELSE IF IsSeccompStop(st) THEN [pc |-> "handle_trap", result |-> 0]
    ELSE [pc |-> "cont", result |-> 0]

WaitEvent ==
    /\ ppc = "wait_event"
    /\ WaitReturns \/ WaitFails
    /\ \E st \in ReadStatus(status') :
         /\ ppc' = AfterWait(st).pc
         /\ presult' = AfterWait(st).result
         /\ trap' = NewTrap(st)
    /\ UNCHANGED opts
    /\ ChildUnchanged /\ ConfigUnchanged /\ UNCHANGED <<fvars, uvars>>

\* The supervisor process ends while the child is still in a ptrace-stop: the kernel
\* detaches the child and lets it run.
TraceeAfterTracerExit == IF tstate = "stopped" THEN "running" ELSE tstate

\* do_trace, the seccomp branch when PTRACE_GETREGS fails: perror and exit(-1)
\* (exit(1) in webtry).
GetRegsFails ==
    /\ ppc = "handle_trap" /\ ~PtraceOk
    /\ errno' = "ESRCH"
    /\ ppc' = "exited"
    /\ presult' = ExitStatus(IF variant = "fiddlek" THEN -1 ELSE 1)
    /\ trap' = [trap EXCEPT !.regs = "failed", !.reqs = @ + 1]
    /\ tstate' = TraceeAfterTracerExit
    /\ UNCHANGED <<status, pending, opts>>
    /\ ChildUnchanged /\ ConfigUnchanged /\ UNCHANGED <<fvars, uvars>>

\* do_trace, the seccomp branch: PTRACE_GETREGS, the check of the syscall and its
\* arguments, and child_fail when the check fails.
HandleTrap ==
    /\ ppc = "handle_trap" /\ PtraceOk
    /\ LET res == dispatch(variant, regs, mem, PtraceOk, libc_clears_errno, errno,
                           allowed_exec)
           cf == child_fail(variant)
           seen == [trap EXCEPT !.regs = "read", !.nr = regs.orig_rax,
                                !.flags = res.flags, !.names = res.names,
                                !.fail = res.fail, !.reqs = @ + 1]
       IN
       /\ errno' = res.errno
       /\ IF res.fail = ""
          THEN /\ ppc' = "cont"
               /\ trap' = seen
               /\ UNCHANGED <<presult, tstate, pending, cpc, regs, mem>>
          ELSE /\ ppc' = "exited"
               /\ presult' = ExitStatus(cf.exit)
               /\ trap' = [seen EXCEPT !.kills = IF cf.kill THEN 1 ELSE 0]
               /\ IF cf.kill
                  THEN ChildDies(Signaled("SIGKILL"))
                  ELSE /\ tstate' = TraceeAfterTracerExit
                       /\ UNCHANGED <<pending, cpc, regs, mem>>
    /\ UNCHANGED <<status, opts, nnp, filter, childLog>>
    /\ ConfigUnchanged /\ UNCHANGED <<fvars, uvars>>

\* do_trace, bottom of the loop: ptrace(PTRACE_CONT, child, 0, 0).
Cont ==
    /\ ppc = "cont"
    /\ PtraceCont(0)
    /\ ppc' = "wait_event"
    /\ UNCHANGED <<presult, status, pending, opts>>
    /\ ChildUnchanged /\ ConfigUnchanged /\ UNCHANGED <<fvars, uvars>>

Init ==
    /\ FilterOff /\ UnitOff
    /\ variant \in {"fiddlek", "webtry"}
    /\ libc_clears_errno \in BOOLEAN
    /\ allowed_exec \in ExecNames
    /\ ppc = "main" /\ presult = 0 /\ status = NoStatus /\ errno = "0"
    /\ cpc = "off" /\ tstate = "none" /\ pending = NoStatus
    /\ opts = FALSE /\ nnp = FALSE /\ filter = "none"
    /\ regs = NoRegs /\ mem = NoMem /\ trap = NoTrap /\ childLog = <<>>

Next ==
    \/ Fork \/ ForkFails \/ WaitInitial \/ SetOptions \/ ContInitial
    \/ WaitEvent \/ GetRegsFails \/ HandleTrap \/ Cont
    \/ ChildTraceme \/ ChildSigstop \/ ChildSetrlimit \/ ChildNoNewPrivs
    \/ ChildSeccomp \/ ChildExec \/ SyscallBody \/ ChildExecFailed
    \/ PayloadSyscall \/ PayloadExit \/ PayloadSignal \/ ThreadWrite \/ KernelKill

Spec == Init /\ [][Next]_vars

(***************************************************************************)
(* UnitSpec: one call of a function of the supervisor, on arguments drawn  *)
(* from bounded sets.                                                      *)
(***************************************************************************)
\* Names given to test_against_prefixes have at most MaxNameLen bytes.
MaxNameLen == 4

NameBytes == {"/", ".", "t"}

\* All strings of at most n bytes over NameBytes.
RECURSIVE NamesUpTo(_)
NamesUpTo(n) ==
    IF n = 0 THEN { <<>> }
    ELSE NamesUpTo(n - 1) \cup
         { Append(x, b) : x \in { y \in NamesUpTo(n - 1) : Len(y) = n - 1 }, b \in NameBytes }

UnitNames == NamesUpTo(MaxNameLen)

\* Prefix lists (NULL-terminated arrays of strings) given to test_against_prefixes.
UnitPrefixLists ==
    { <<>>,
      << <<>> >>,
      << <<"/", "t">> >>,
      << <<"t">>, <<"/", "/">> >>,
      << <<".", ".", "/">> >>,
      << <<"/", "t", "/">>, <<".">> >> }

\* Syscall numbers of the stops given to the dispatch of do_trace.
UnitDispatchNrs ==
    { SYS[n] : n \in {"execve", "open", "openat", "mkdir", "rename", "read", "socket", "kill"} }

\* Tracee memory given to read_string: a run of bytes that are not NUL, then a NUL
\* or none, then some more bytes, and the mapping ends.  Short runs have at most
\* MaxRun bytes; long runs reach the end of the first and of the second allocation.
MaxRun == 17

Run(n) == [i \in 1..n |-> "a"]

ShortRegions ==
    { Run(k) \o z \o Run(t) : k \in 0..MaxRun, z \in {<<>>, <<NUL>>}, t \in {0, 3, 7, 8} }

LongRegions ==
    { Run(k) \o z :
        k \in { INITIAL_ALLOCATION - WordSize, INITIAL_ALLOCATION - 1, INITIAL_ALLOCATION,
                INITIAL_ALLOCATION + 1, 2 * INITIAL_ALLOCATION + 1 },
        z \in {<<>>, <<NUL, "a", "a", "a", "a", "a", "a", "a">>} }

UnitInputs(op) ==
    CASE op = "test_against_prefixes" ->
            { [name |-> n, prefixes |-> l] : n \in UnitNames, l \in UnitPrefixLists }
      [] op = "dispatch" ->
            { [v |-> v, allowed |-> a, clears |-> c, errno |-> err, m |-> (BufAddr(1) :> img),
               r |-> [orig_rax |-> nr, rdi |-> p, rsi |-> p, rdx |-> 0, arch |-> ARCH_NR]] :
                v \in {"fiddlek", "webtry"}, a \in ExecNames, c \in BOOLEAN,
                err \in {"0", "EIO"}, img \in {img_r, img_lib_x},
                nr \in UnitDispatchNrs, p \in {0, BufAddr(1)} }
      [] op = "read_string" ->
            { [addr |-> BufAddr(1), m |-> (BufAddr(1) :> g), stopped |-> st,
               clears |-> c, errno |-> err] :
                g \in ShortRegions, st \in BOOLEAN, c \in BOOLEAN, err \in {"0", "EIO"} }
            \cup
            { [addr |-> BufAddr(1), m |-> (BufAddr(1) :> g), stopped |-> TRUE,
               clears |-> TRUE, errno |-> "0"] : g \in LongRegions }

UnitOps == {"test_against_prefixes", "dispatch", "read_string"}

UnitInit ==
    /\ uop \in UnitOps
    /\ uin \in UnitInputs(uop)
    /\ uout = <<>>
    /\ FilterOff /\ SysOff

UnitCall(op) == uop = op /\ uout = <<>>
UnitDone(op) == uop = op /\ uout # <<>>
UnitReturn(result) == uout' = <<result>> /\ UNCHANGED <<uop, uin, fvars, svars>>

\* test_against_prefixes(child, caller, name, prefixes).
UTestAgainstPrefixes ==
    /\ UnitCall("test_against_prefixes")
    /\ UnitReturn(test_against_prefixes(uin.name, uin.prefixes))

\* do_trace: the if/else-if chain on regs.orig_rax, after PTRACE_GETREGS.
UDispatch ==
    /\ UnitCall("dispatch")
    /\ UnitReturn(dispatch(uin.v, uin.r, uin.m, TRUE, uin.clears, uin.errno, uin.allowed))

\* read_string(child, addr), called with the errno the supervisor has: up to the
\* loop.
UReadStringEnter ==
    /\ UnitCall("read_string")
    /\ UnitReturn(read_string_entry(uin.errno))

\* The number of loop iterations one step of the model takes (the loop runs a
\* thousand times on the longest region).
IterationsPerStep == 64

\* read_string: up to n iterations of its loop, stopping at its return.
RECURSIVE read_string_iterations(_, _, _, _, _)
read_string_iterations(region, stopped, clears, st, n) ==
    IF n = 0 \/ st.done THEN st
    ELSE read_string_iterations(region, stopped, clears,
                                read_string_iter(region, stopped, clears, st), n - 1)

\* read_string: the next iterations of its loop.
UReadStringIter ==
    /\ uop = "read_string" /\ uout # <<>> /\ ~uout[1].done
    /\ UnitReturn(read_string_iterations(Region(uin.m, uin.addr), uin.stopped,
                                         uin.clears, uout[1], IterationsPerStep))

\* read_string has returned.
ReadStringDone == uop = "read_string" /\ uout # <<>> /\ uout[1].done

UnitNext == UTestAgainstPrefixes \/ UDispatch \/ UReadStringEnter \/ UReadStringIter

UnitSpec == UnitInit /\ [][UnitNext]_vars

(***************************************************************************)
(* Claims about the filter programs (checked under FilterSpec).            *)
(***************************************************************************)
\* The allow set and the trace set as the specification lists them.
SpecAllowNames ==
    { "exit", "exit_group", "clone", "wait4", "tgkill", "mmap", "mprotect", "munmap",
      "brk", "mremap", "read", "write", "lseek", "fstat", "close", "pread64",
      "ftruncate", "fcntl", "dup", "ioctl", "fadvise64", "getdents", "getdents64",
      "stat", "statfs", "fstatfs", "access", "readlink", "newfstatat", "futex",
      "rt_sigaction", "rt_sigprocmask", "sched_yield", "getpid", "gettid", "getuid",
      "geteuid", "getgid", "getegid", "clock_gettime", "sysinfo", "getrandom",
      "set_tid_address", "set_robust_list", "arch_prctl", "getrlimit", "prlimit64",
      "chmod", "chown", "shmctl" }
SpecTraceNames ==
    { "open", "openat", "mkdir", "unlink", "mknod", "link", "rename", "execve" }
SpecAllowNrs == { SYS[n] : n \in SpecAllowNames }
SpecTraceNrs == { SYS[n] : n \in SpecTraceNames }

\* The syscall numbers a program tests in rules that end in the given verdict.
RuleNrs(rules, v) ==
    { rules[r][1].k : r \in { q \in 1..Len(rules) :
          /\ rules[q][1].code = "JEQ"
          /\ rules[q][Len(rules[q])].code = "RET"
          /\ rules[q][2].code = "RET" /\ rules[q][2].ret = v } }

\* Index (1-based) of the first instruction of rule r in the flattened program.
RECURSIVE RuleStart(_, _)
RuleStart(rules, r) ==
    IF r = 1 THEN 1 ELSE RuleStart(rules, r - 1) + Len(rules[r - 1])

\* The rule that holds instruction pc.
RuleAt(rules, pc) ==
    CHOOSE r \in 1..Len(rules) :
        RuleStart(rules, r) <= pc /\ pc < RuleStart(rules, r) + Len(rules[r])

\* C1: in the fiddlek filter program, on the expected architecture, the verdict is
\* ALLOW exactly for the syscalls of the allow set, TRACE exactly for open, openat,
\* mkdir, unlink, mknod, link, rename, execve, and KILL for every other number; the
\* two sets are disjoint; and every jump lands on the first instruction of the next
\* rule or stays in its own rule: the machine is inside a dispatch rule only when
\* the number matched that rule, and reaches a rule only when no earlier rule matched.
C1_FiddlekVerdicts ==
    fprog = "fiddlek" =>
        LET rules == fiddlek_rules
            r == RuleAt(rules, fpc)
        IN
        /\ fpc \in 1..Len(Prog("fiddlek"))
        /\ RuleNrs(rules, "ALLOW") \cap RuleNrs(rules, "TRACE") = {}
        /\ SpecAllowNrs \cap SpecTraceNrs = {}
        /\ (fret # "none" /\ fdata.arch = ARCH_NR) =>
              fret = (IF fdata.nr \in SpecAllowNrs THEN "ALLOW"
                      ELSE IF fdata.nr \in SpecTraceNrs THEN "TRACE"
                      ELSE "KILL")
        /\ (r >= 3 /\ fpc > RuleStart(rules, r)) => rules[r][1].k = fdata.nr
        /\ (r >= 3 /\ fpc = RuleStart(rules, r)) =>
              \A q \in 3..(r - 1) : rules[q][1].k # fdata.nr

\* Witness of C1: the last trace rule (openat) is reached and returns TRACE.
C1_Witness ==
    /\ fprog = "fiddlek" /\ fdata.arch = ARCH_NR
    /\ fdata.nr = SYS["openat"] /\ fret = "TRACE"

\* C2: in both fiddle_secwrap filter programs the first instruction loads the
\* architecture field, a mismatch returns KILL, and the syscall number is loaded
\* (and any ALLOW or TRACE verdict produced) only when the architecture matched.
C2_ArchitectureGate ==
    fprog \in {"fiddlek", "webtry"} =>
        /\ (fpc = 2 /\ fret = "none") => facc = fdata.arch
        /\ fNrLoaded => fdata.arch = ARCH_NR
        /\ fret \in {"ALLOW", "TRACE"} => fdata.arch = ARCH_NR
        /\ (fdata.arch # ARCH_NR /\ fret # "none") => (fret = "KILL" /\ fpc = 3)

\* Witness of C2: a syscall of another architecture, whose number is in the allow
\* set, is killed by the web try program.
C2_Witness ==
    /\ fprog = "webtry" /\ fdata.arch = OTHER_ARCH
    /\ fdata.nr = SYS["read"] /\ fret = "KILL" /\ ~fNrLoaded

\* C16: in the webtry filter program the verdict for open (flags in args[1]) and
\* openat (flags in args[2]) is TRACE when the access-mode bits of the flags are
\* O_RDONLY and KILL otherwise; the argument is loaded only inside the rule whose
\* number matched; every rule is entered with the syscall number in the accumulator,
\* so for any other number the verdict depends on the number alone.
C16_WebtryOpenFastPath ==
    (fprog = "webtry" /\ fdata.arch = ARCH_NR) =>
        LET rules == webtry_rules
            r == RuleAt(rules, fpc)
            fast == { q \in 1..Len(rules) : Len(rules[q]) = 6 }
            flags == IF fdata.nr = SYS["open"] THEN fdata.args[2] ELSE fdata.args[3]
        IN
        /\ { rules[q][1].k : q \in fast } = { SYS["open"], SYS["openat"] }
        /\ (fret # "none" /\ fdata.nr \in {SYS["open"], SYS["openat"]}) =>
              fret = (IF flags % 4 = O_RDONLY THEN "TRACE" ELSE "KILL")
        /\ (fret # "none" /\ fdata.nr \notin {SYS["open"], SYS["openat"]}) =>
              fret = (IF fdata.nr \in RuleNrs(rules, "ALLOW") THEN "ALLOW"
                      ELSE IF fdata.nr = SYS["execve"] THEN "TRACE"
                      ELSE "KILL")
        /\ (fret = "none" /\ r >= 3 /\ fpc = RuleStart(rules, r)) => facc = fdata.nr
        /\ (r \in fast /\ fpc > RuleStart(rules, r)) => rules[r][1].k = fdata.nr

\* Witness of C16: an openat whose flags are O_RDONLY|O_CREAT (and whose args[1] is
\* 257, the number of openat) is traced by the second fast-path rule.
C16_Witness ==
    /\ fprog = "webtry" /\ fdata.arch = ARCH_NR
    /\ fdata.nr = SYS["openat"] /\ fdata.args[2] = 257 /\ fdata.args[3] = 64 /\ fret = "TRACE"

(***************************************************************************)
(* Claims about the supervisor and the child (checked under Spec).         *)
(***************************************************************************)
\* p is a byte-exact prefix of s.
HasPrefix(p, s) == Len(p) <= Len(s) /\ SubSeq(s, 1, Len(p)) = p

\* s contains "../".
HasDotDotSlash(s) ==
    \E i \in 1..(Len(s) - 2) : s[i] = "." /\ s[i + 1] = "." /\ s[i + 2] = "/"

\* A path is accepted by a prefix list: no "../" in it and some entry is a prefix.
Accepted(name, list) ==
    ~HasDotDotSlash(name) /\ \E i \in 1..Len(list) : HasPrefix(list[i], name)

PathNrs == { SYS[n] : n \in {"open", "openat", "mkdir", "unlink", "mknod", "link", "rename"} }
PathCount(nr) == IF nr \in {SYS["link"], SYS["rename"]} THEN 2 ELSE 1

\* The list configured in fiddlek for a traced syscall with the given registers.
ConfiguredList(nr, flags) ==
    CASE nr \in {SYS["open"], SYS["openat"]} ->
            IF flags % 4 = 0 THEN readonly_allowed_prefixes ELSE writing_allowed_prefixes
      [] nr = SYS["mkdir"]  -> mkdir_allowed_prefixes
      [] nr = SYS["unlink"] -> unlink_allowed_prefixes
      [] nr = SYS["mknod"]  -> mknod_allowed_prefixes
      [] nr = SYS["link"]   -> link_allowed_prefixes
      [] nr = SYS["rename"] -> rename_allowed_prefixes

\* The flags argument of the tracee's open (rsi) or openat (rdx).
OpenFlags(r) == IF r.orig_rax = SYS["open"] THEN r.rsi ELSE r.rdx

\* The supervisor issues a PTRACE_CONT in this step.
ContIssued == trap'.conts > trap.conts

\* The tracee is in a seccomp stop that the supervisor has been told of.
InSeccompTrap == trap.kind = "seccomp"

\* C3: in the fiddlek supervisor, in any sequence of traps, a PTRACE_CONT is issued
\* for a seccomp trap on open, openat, mkdir, unlink, mknod, link or rename only if
\* every path of the syscall was decoded and each decoded path has no "../" and has
\* a prefix in the list configured for that syscall.
C3_ResumeOnlyIfAccepted ==
    [][ (variant = "fiddlek" /\ InSeccompTrap /\ ContIssued /\ regs.orig_rax \in PathNrs)
        => /\ Len(trap.names) = PathCount(regs.orig_rax)
           /\ \A i \in 1..Len(trap.names) : Accepted(trap.names[i], ConfiguredList(regs.orig_rax, OpenFlags(regs)))
      ]_vars

\* Witness of C3: the tracee runs again inside a rename that was checked and resumed.
C3_Witness ==
    /\ variant = "fiddlek" /\ cpc = "payload_body" /\ tstate = "running"
    /\ regs.orig_rax = SYS["rename"] /\ trap.kind = "seccomp" /\ trap.conts = 1

\* C4: for every execve seccomp trap, the bootstrap's own included, a PTRACE_CONT is
\* issued only if the string read at rdi equals argv[1] byte for byte; on any
\* difference the tracee is sent SIGKILL, the supervisor exits, no PTRACE_CONT is
\* issued.
C4_ExecOnlyAllowed ==
    /\ [][ (InSeccompTrap /\ ContIssued /\ regs.orig_rax = SYS["execve"])
           => trap.names = <<allowed_exec>> ]_vars
    /\ [] ( (InSeccompTrap /\ trap.regs = "read" /\ trap.nr = SYS["execve"]
               /\ trap.names # <<allowed_exec>>)
            => /\ ppc = "exited" /\ trap.kills = 1 /\ trap.conts = 0
               /\ tstate = "zombie" /\ pending = Signaled("SIGKILL") )

\* Witness of C4: the supervisor has seen the exec event of the bootstrap's exec,
\* which it resumed after reading argv[1] at rdi.
C4_Witness ==
    /\ status = Stopped("SIGTRAP", "exec") /\ cpc = "payload"
    /\ allowed_exec = <<"/", "r">>

\* C5 (as claimed): after every seccomp stop reported to it, the supervisor has
\* issued a PTRACE_CONT or sent SIGKILL by the time it waits again or ends, also
\* when PTRACE_GETREGS fails.
C5_EveryStopAnswered ==
    (InSeccompTrap /\ ppc \in {"wait_event", "returned", "exited"})
        => trap.conts + trap.kills >= 1

\* What the policy calls a violation, for the stop whose registers and strings the
\* fiddlek supervisor has read: an execve of another name, a path with "../" or
\* without a configured prefix, a traced syscall that is none of the eight.
PolicyViolation ==
    /\ InSeccompTrap /\ trap.regs = "read"
    /\ \/ trap.nr = SYS["execve"] /\ trap.names # <<allowed_exec>>
       \/ /\ trap.nr \in PathNrs
          /\ \E i \in 1..Len(trap.names) : ~Accepted(trap.names[i], ConfiguredList(trap.nr, trap.flags))
       \/ trap.nr \notin (PathNrs \cup {SYS["execve"]})

C7_KillOrOneCont ==
    (variant = "fiddlek" /\ InSeccompTrap) =>
        /\ PolicyViolation =>
              /\ ppc = "exited" /\ trap.kills = 1 /\ trap.conts = 0
              /\ tstate = "zombie" /\ pending = Signaled("SIGKILL")
        /\ (trap.regs = "read" /\ ~PolicyViolation) =>
              (ppc = "cont" /\ trap.kills = 0 /\ trap.conts = 0)
        /\ trap.conts > 0 =>
              (trap.conts = 1 /\ trap.kills = 0 /\ ppc = "wait_event")

\* Witness of C7: after a passed check of an open, one PTRACE_CONT, the tracee runs
\* and the supervisor waits.
C7_Witness ==
    /\ variant = "fiddlek" /\ InSeccompTrap /\ trap.conts = 1 /\ ppc = "wait_event"
    /\ tstate = "running" /\ regs.orig_rax = SYS["open"]

\* C8: once the waitpid of the loop has left a status that reports the end of the
\* tracee, the loop has ended, with no ptrace request since that waitpid: result 0
\* for a normal exit whatever the exit status, result 1 for a death by signal
\* (SIGSYS of a KILL verdict included).
C8_LoopEndsOnTermination ==
    (ppc \in {"handle_trap", "cont", "returned", "exited"}
        /\ (WIFEXITED(status) \/ WIFSIGNALED(status)))
    => /\ ppc = "returned"
       /\ presult = (IF WIFEXITED(status) THEN 0 ELSE 1)
       /\ trap.reqs = 0

\* Witness of C8: the tracee died of SIGSYS and the supervisor returned 1.
C8_Witness ==
    /\ ppc = "returned" /\ status = Signaled("SIGSYS") /\ presult = 1
    /\ tstate = "reaped"

\* The order of the bootstrap's calls.
BootstrapOrder ==
    << "PTRACE_TRACEME", "SIGSTOP", "RLIMIT_CPU", "RLIMIT_AS", "NO_NEW_PRIVS",
       "SECCOMP", "execvp" >>

\* C9: the child's bootstrap calls happen in the order PTRACE_TRACEME, SIGSTOP,
\* RLIMIT_CPU, RLIMIT_AS, NO_NEW_PRIVS, seccomp filter, exec: what it has called so
\* far is always an initial part of that order, and all of it once exec is called.
C9_BootstrapOrder ==
    /\ Len(childLog) <= Len(BootstrapOrder)
    /\ \A i \in 1..Len(childLog) : childLog[i].call = BootstrapOrder[i]
    /\ cpc \in {"exec_body", "exec_failed", "payload", "payload_body"}
          => Len(childLog) = Len(BootstrapOrder)

\* Witness of C9: the target runs, a setrlimit having failed on the way.
C9_Witness ==
    /\ cpc = "payload" /\ Len(childLog) = 7 /\ ~childLog[3].ok

\* A setup call of the child failed.
ChildSetupFailed ==
    \E i \in 1..Len(childLog) :
        childLog[i].call \in {"PTRACE_TRACEME", "NO_NEW_PRIVS", "SECCOMP"} /\ ~childLog[i].ok

\* C10 (as claimed): on every setup failure inside the child the supervisor process
\* ends with exit code 1.
C10_SetupFailureExitsWith1 ==
    (ChildSetupFailed /\ SupervisorEnded) => presult = 1

\* The supervisor has passed a call of waitpid or ptrace made with child.
PidUsed == ppc \in {"setoptions", "cont_initial", "wait_event", "handle_trap", "cont"}

\* C11 (as claimed): when fork returns -1 the supervisor ends with a non-zero result
\* and never calls waitpid, ptrace or kill with the pid -1.
C11_ForkFailureAborts ==
    (child = -1) =>
        /\ ~PidUsed /\ trap.reqs = 0 /\ trap.kills = 0
        /\ SupervisorEnded => presult # 0

\* s contains "..".
HasDotDot(s) == \E i \in 1..(Len(s) - 1) : s[i] = "." /\ s[i + 1] = "."

\* The prefixes configured in webtry for open and for openat.
WebtryPrefixes(nr) ==
    IF nr = SYS["open"]
    THEN << <<"/", "u", "s", "r", "/", "s", "h", "a", "r", "e", "/", "f", "o", "n", "t", "s">>,
            <<"/", "e", "t", "c", "/", "l", "d", ".", "s", "o", ".", "c", "a", "c", "h", "e">>,
            <<"/", "l", "i", "b", "/">>,
            <<"/", "u", "s", "r", "/", "l", "i", "b", "/">>,
            <<"s", "k", "i", "a", ".", "c", "o", "n", "f">> >>
    ELSE << <<"/", "u", "s", "r", "/", "s", "h", "a", "r", "e", "/", "f", "o", "n", "t", "s">> >>

StartsWithOne(name, list) == \E i \in 1..Len(list) : HasPrefix(list[i], name)

\* The webtry supervisor has read the registers and the path of a read-only open or
\* openat that stopped the tracee.
WebtryReadOnlyOpen ==
    /\ variant = "webtry" /\ InSeccompTrap /\ trap.regs = "read"
    /\ trap.nr \in {SYS["open"], SYS["openat"]}
    /\ trap.flags % 4 = 0

\* The check passed: no kill, the supervisor is at its PTRACE_CONT.
CheckPassed == ppc = "cont" /\ trap.fail = "" /\ trap.kills = 0

\* The supervisor leaves the bottom of the loop by a PTRACE_CONT, which makes a
\* stopped tracee run.
ContResumes ==
    [][ (ppc = "cont" /\ ppc' # "cont")
        => (ContIssued /\ (tstate = "stopped" => tstate' = "running")) ]_vars

\* C13 (as claimed): in the webtry supervisor a read-only open or openat whose path
\* has no "../" and starts with a configured prefix is accepted.
C13_WebtryAcceptsWithoutDotDotSlash ==
    (WebtryReadOnlyOpen /\ ~HasDotDotSlash(trap.names[1])
        /\ StartsWithOne(trap.names[1], WebtryPrefixes(trap.nr)))
    => CheckPassed

\* C13 (amended): in the webtry supervisor a read-only open or openat whose path
\* has no ".." and starts with a configured prefix is accepted, and the tracee is
\* resumed.
C13_WebtryAcceptsWithoutDotDot ==
    /\ [] ( (WebtryReadOnlyOpen /\ ~HasDotDot(trap.names[1])
               /\ StartsWithOne(trap.names[1], WebtryPrefixes(trap.nr)))
            => CheckPassed )
    /\ ContResumes

\* Witness of C13: the tracee runs again inside an open of "/lib/x" in webtry.
C13_Witness ==
    /\ variant = "webtry" /\ cpc = "payload_body" /\ tstate = "running"
    /\ regs.orig_rax = SYS["open"] /\ trap.kind = "seccomp" /\ trap.conts = 1
    /\ regs.rdi \in DOMAIN mem /\ mem[regs.rdi] = img_lib_x

\* The pointer to the path of the tracee's open (rdi) or openat (rsi), and the
\* string the tracee has there.
OpenPathPtr(r) == IF r.orig_rax = SYS["open"] THEN r.rdi ELSE r.rsi
OpenPath(r, m) == CStr(Region(m, OpenPathPtr(r)))

\* The supervisor reads the registers of a stopped tracee and checks the syscall.
ChecksTrap == ppc = "handle_trap" /\ trap'.regs = "read"

\* The check failed: SIGKILL for the tracee, the supervisor exits, no PTRACE_CONT.
KilledNext ==
    /\ ppc' = "exited" /\ trap'.kills = 1 /\ trap'.conts = 0
    /\ tstate' = "zombie" /\ pending' = Signaled("SIGKILL")

\* C14: in fiddlek every open or openat with access mode O_RDONLY of a path without
\* "../" passes the check whatever the path is (the read-only list holds the empty
\* string) and the tracee is resumed; in webtry a read-only open or openat of a
\* path that starts with none of the listed prefixes kills the tracee.
C14_EmptyPrefixAcceptsAnyPath ==
    /\ [][ (ChecksTrap /\ regs.orig_rax \in {SYS["open"], SYS["openat"]}
              /\ OpenFlags(regs) % 4 = 0)
           => /\ (variant = "fiddlek" /\ ~HasDotDotSlash(OpenPath(regs, mem)))
                    => (ppc' = "cont" /\ trap'.kills = 0)
              /\ (variant = "webtry"
                    /\ ~StartsWithOne(OpenPath(regs, mem), WebtryPrefixes(regs.orig_rax)))
                    => KilledNext ]_vars
    /\ ContResumes

\* Witness of C14: the tracee runs again inside a read-only open of "/etc/passwd"
\* in fiddlek.
C14_Witness ==
    /\ variant = "fiddlek" /\ cpc = "payload_body" /\ tstate = "running"
    /\ regs.orig_rax = SYS["open"] /\ regs.rsi = O_RDONLY
    /\ trap.kind = "seccomp" /\ trap.conts = 1
    /\ regs.rdi \in DOMAIN mem /\ mem[regs.rdi] = img_passwd

\* The writable list of fiddlek: "/tmp/" and "/var/cache/fontconfig".
WritableList ==
    << <<"/", "t", "m", "p", "/">>,
       <<"/", "v", "a", "r", "/", "c", "a", "c", "h", "e", "/", "f", "o", "n", "t", "c", "o", "n", "f", "i", "g">> >>

\* The string at ptr in the tracee ends with a NUL in a word that is wholly mapped.
Readable(m, ptr) ==
    LET region == Region(m, ptr) IN
    \E k \in 1..Len(region) :
        /\ region[k] = NUL
        /\ \A j \in 1..(k - 1) : region[j] # NUL
        /\ (((k - 1) \div WordSize) + 1) * WordSize <= Len(region)

\* C15: for an open trap (path at rdi, flags in rsi) and an openat trap (path at
\* rsi, flags in rdx) the fiddlek supervisor checks the path against the read-only
\* list exactly when flags & O_ACCMODE is O_RDONLY and against the writable list
\* ("/tmp/", "/var/cache/fontconfig") otherwise; an open that can write never
\* passes by the read-only list.
C15_ListByAccessMode ==
    [][ (ChecksTrap /\ variant = "fiddlek" /\ regs.orig_rax \in {SYS["open"], SYS["openat"]})
        => LET name == trap'.names[1]
               rdonly == OpenFlags(regs) % 4 = O_RDONLY
           IN
           /\ Len(trap'.names) = 1
           /\ HasPrefix(name, OpenPath(regs, mem))
           /\ (Readable(mem, OpenPathPtr(regs)) /\ (errno = "0" \/ libc_clears_errno))
                 => name = OpenPath(regs, mem)
           /\ trap'.flags = OpenFlags(regs)
           /\ rdonly => ((ppc' = "cont") <=> Accepted(name, readonly_allowed_prefixes))
           /\ ~rdonly => ((ppc' = "cont") <=> Accepted(name, WritableList))
           /\ ppc' # "cont" => KilledNext
      ]_vars

\* Witness of C15: the tracee runs again inside an openat(O_WRONLY) of "/tmp/a".
C15_Witness ==
    /\ variant = "fiddlek" /\ cpc = "payload_body" /\ tstate = "running"
    /\ regs.orig_rax = SYS["openat"] /\ regs.rdx = 1
    /\ trap.kind = "seccomp" /\ trap.conts = 1
    /\ regs.rsi \in DOMAIN mem /\ mem[regs.rsi] = img_tmp_a

\* The list of link and of rename: "/tmp/".
TmpSlashList == << <<"/", "t", "m", "p", "/">> >>

\* C17: for a link or rename trap in fiddlek the path at the first argument is read
\* and checked against "/tmp/"; if it fails the tracee is killed and the second path
\* is not read; if it passes the path at the second argument is read and checked
\* against the same list, and the tracee is killed if that fails.  A PTRACE_CONT
\* is issued for the trap only with both paths read and accepted.
C17_BothPathsMustPass ==
    /\ [][ (ChecksTrap /\ variant = "fiddlek"
              /\ regs.orig_rax \in {SYS["link"], SYS["rename"]})
           => /\ Len(trap'.names) >= 1
              /\ HasPrefix(trap'.names[1], CStr(Region(mem, regs.rdi)))
              /\ IF ~Accepted(trap'.names[1], TmpSlashList)
                 THEN KilledNext /\ Len(trap'.names) = 1
                 ELSE /\ Len(trap'.names) = 2
                      /\ HasPrefix(trap'.names[2], CStr(Region(mem, regs.rsi)))
                      /\ (ppc' = "cont") <=> Accepted(trap'.names[2], TmpSlashList)
                      /\ ppc' # "cont" => KilledNext ]_vars
    /\ [][ (InSeccompTrap /\ ContIssued /\ variant = "fiddlek"
              /\ regs.orig_rax \in {SYS["link"], SYS["rename"]})
           => /\ Len(trap.names) = 2
              /\ Accepted(trap.names[1], TmpSlashList)
              /\ Accepted(trap.names[2], TmpSlashList) ]_vars

\* Witness of C17: a rename whose first path passed and whose second path failed
\* ended with the tracee killed.
C17_Witness ==
    /\ variant = "fiddlek" /\ ppc = "exited" /\ trap.nr = SYS["rename"]
    /\ Len(trap.names) = 2 /\ trap.kills = 1 /\ trap.conts = 0
    /\ Accepted(trap.names[1], TmpSlashList) /\ ~Accepted(trap.names[2], TmpSlashList)

(***************************************************************************)
(* Claims about single functions (checked under UnitSpec).                 *)
(***************************************************************************)
\* C12: test_against_prefixes returns without killing the tracee if and only if the
\* name has no "../" in it and some entry of the list is a byte-exact prefix of the
\* name; a name equal to an entry is accepted, a name with "../" is rejected even
\* when an entry is a prefix of it.
C12_AcceptsIffPrefixAndNoDotDot ==
    UnitDone("test_against_prefixes") =>
        /\ (uout[1] = "") <=> Accepted(uin.name, uin.prefixes)
        /\ (\E i \in 1..Len(uin.prefixes) : uin.prefixes[i] = uin.name)
              /\ ~HasDotDotSlash(uin.name) => uout[1] = ""
        /\ HasDotDotSlash(uin.name) => uout[1] # ""

\* Witness of C12: a name equal to the one listed prefix was accepted.
C12_Witness ==
    /\ UnitDone("test_against_prefixes") /\ uout = <<"">>
    /\ uin.name = <<"/", "t">> /\ uin.prefixes = << <<"/", "t">> >>

\* A stop of webtry's tracee on a syscall that is none of execve, open, openat has
\* been dispatched.
WebtryOtherSyscall ==
    /\ UnitDone("dispatch") /\ uin.v = "webtry"
    /\ uin.r.orig_rax \notin {SYS["execve"], SYS["open"], SYS["openat"]}

WordEnd(k) == (((k - 1) \div WordSize) + 1) * WordSize

\* The position of the first NUL of a region that holds one.
FirstNul(region) ==
    CHOOSE k \in 1..Len(region) : region[k] = NUL /\ \A j \in 1..(k - 1) : region[j] # NUL

\* C19 (as claimed): read_string returns a NUL-terminated buffer and writes no byte
\* past the allocated size; when every peek succeeds the buffer holds exactly the
\* words of the tracee's memory from the address up to the first word with a NUL in
\* it; when a peek fails it holds the words read before the failure followed by a
\* NUL.
C19_ReadStringBytes ==
    ReadStringDone =>
        LET region == Region(uin.m, uin.addr)
            out == uout[1]
            whole == IF uin.stopped THEN Len(region) \div WordSize ELSE 0
        IN
        /\ \E i \in 1..Len(out.val) : out.val[i] = NUL
        /\ Len(out.val) <= out.allocated
        /\ IF uin.stopped /\ Readable(uin.m, uin.addr)
           THEN out.val = SubSeq(region, 1, WordEnd(FirstNul(region)))
           ELSE out.val = SubSeq(region, 1, WordSize * whole) \o <<NUL>>

\* The only length read_string names: the size of its first allocation.
MaxStringLength == INITIAL_ALLOCATION

\* C20 (as claimed): read_string stops once a maximum length is reached: whatever
\* the tracee's memory holds, it never goes on reading after MaxStringLength bytes.
C20_ReadStopsAtMaximum ==
    (uop = "read_string" /\ uout # <<>>) => uout[1].read <= MaxStringLength

(***************************************************************************)
(* Claims about read_string inside the supervisor's loop, about the stops  *)
(* that are no seccomp events, and about the child bootstrap (Spec).       *)
(***************************************************************************)
\* The pointer to the first path of a checked syscall: rsi for openat, rdi for the
\* others.
FirstPathPtr(r) == IF r.orig_rax = SYS["openat"] THEN r.rsi ELSE r.rdi

\* C21 (as claimed): read_string takes a peek as failed only when that peek failed:
\* whatever value errno was left with by the supervisor's earlier calls, the name
\* read for a trap whose path the tracee holds in readable memory is that path, never
\* a shorter or an empty string.
C21_StaleErrnoIsHarmless ==
    [][ (ChecksTrap /\ regs.orig_rax \in (PathNrs \cup {SYS["execve"]})
           /\ Readable(mem, FirstPathPtr(regs)))
        => trap'.names[1] = CStr(Region(mem, FirstPathPtr(regs))) ]_vars

\* waitpid reports a stop of the tracee that is no seccomp event: a
\* signal-delivery-stop or an exec event stop.
OtherStopReported ==
    /\ ppc = "wait_event" /\ status' = pending /\ pending' = NoStatus
    /\ pending.kind = "stopped" /\ ~IsSeccompStop(pending)

\* C22: for a stop of the tracee that is no seccomp event the supervisor goes
\* straight to PTRACE_CONT: it reads no registers and no string, sends no kill, and
\* its one ptrace request for the stop, made before it waits again, is a
\* PTRACE_CONT with data 0.
C22_OtherStopsResumedUninspected ==
    /\ [][ OtherStopReported => (ppc' = "cont" /\ trap'.kind = "other") ]_vars
    /\ [](trap.kind = "other" =>
            /\ trap.regs = "none" /\ trap.names = <<>> /\ trap.kills = 0
            /\ trap.reqs = trap.conts
            /\ \/ ppc = "cont" /\ trap.conts = 0 /\ trap.data = -1
               \/ ppc = "wait_event" /\ trap.conts = 1 /\ trap.data = 0)

\* Witness of C22: the payload runs again after the exec event stop was answered by
\* one PTRACE_CONT.
C22_Witness ==
    /\ status = Stopped("SIGTRAP", "exec") /\ trap.kind = "other"
    /\ trap.conts = 1 /\ trap.reqs = 1 /\ trap.data = 0
    /\ ppc = "wait_event" /\ tstate = "running" /\ cpc = "payload"

\* The child's execvp has returned and do_child has run to its end.
ExecHasReturned ==
    /\ Len(childLog) = Len(do_child)
    /\ childLog[Len(childLog)].call = "execvp" /\ ~childLog[Len(childLog)].ok

\* C23: in fiddlek, when the execvp of the target returns, the child ends killed
\* by a signal while the supervisor waits for it; the supervisor's waitpid then
\* reports a signaled child and do_trace returns 1, not 0.
C23_ExecFailureReportedAsSignal ==
    /\ [][ (variant = "fiddlek" /\ cpc = "exec_failed" /\ cpc' # cpc)
           => (tstate' = "zombie" /\ WIFSIGNALED(pending') /\ ppc = "wait_event") ]_vars
    /\ []((variant = "fiddlek" /\ ExecHasReturned) =>
            /\ tstate = "zombie" => (WIFSIGNALED(pending) /\ ppc = "wait_event")
            /\ tstate = "reaped" => (WIFSIGNALED(status) /\ ppc = "returned" /\ presult = 1)
            /\ tstate \in {"zombie", "reaped"})

\* Witness of C23: the supervisor has returned 1 after the execvp of "/r" returned
\* in the child.
C23_Witness ==
    /\ variant = "fiddlek" /\ ExecHasReturned
    /\ tstate = "reaped" /\ WIFSIGNALED(status) /\ ppc = "returned" /\ presult = 1

\* Values of the first argument register of an openat: AT_FDCWD, descriptors, and
\* the addresses of the tracee's path buffers.
DirFdValues == DirFds \cup {0, BufAddr(1), BufAddr(2)}

\* C24: the outcome of an openat trap does not depend on the directory descriptor
\* in rdi: with any other value there and the same path pointer, memory and flags,
\* the check reads the same name, and passes exactly when this one passes (the
\* tracee is resumed) and fails exactly when this one fails (the tracee is killed).
C24_OpenatIgnoresDirfd ==
    [][ (ChecksTrap /\ regs.orig_rax = SYS["openat"])
        => \A d \in DirFdValues :
             LET other == dispatch(variant, [regs EXCEPT !.rdi = d], mem, PtraceOk,
                                   libc_clears_errno, errno, allowed_exec)
             IN /\ other.names = trap'.names
                /\ other.fail = trap'.fail
                /\ (other.fail = "") <=> (ppc' = "cont" /\ trap'.kills = 0)
                /\ (other.fail # "") <=> KilledNext ]_vars

\* Witness of C24: the tracee runs again inside an openat whose directory
\* descriptor is an open descriptor, not AT_FDCWD.
C24_Witness ==
    /\ cpc = "payload_body" /\ tstate = "running"
    /\ regs.orig_rax = SYS["openat"] /\ regs.rdi = 3
    /\ trap.kind = "seccomp" /\ trap.conts = 1 /\ trap.kills = 0

\* C25: the supervisor checks the path bytes as they are in the tracee's memory
\* when it handles the trap (a readable path is read as it is there, errno being
\* clean), it changes neither the tracee's registers nor its memory while it
\* handles and resumes the stop, and what it resumes the tracee with is the check
\* of those bytes, whatever a second thread writes afterwards.
C25_CheckedAtTrapTimeOnly ==
    /\ [][ (ppc \in {"handle_trap", "cont"} /\ ppc' # ppc /\ tstate' # "zombie")
           => UNCHANGED <<regs, mem>> ]_vars
    /\ [][ (ChecksTrap /\ regs.orig_rax \in PathNrs
              /\ Readable(mem, FirstPathPtr(regs))
              /\ (errno = "0" \/ libc_clears_errno))
           => trap'.names[1] = CStr(Region(mem, FirstPathPtr(regs))) ]_vars
    /\ [][ (ppc = "cont" /\ ContIssued) => trap'.accepted = trap.names ]_vars

\* Witness of C25: the fiddlek supervisor accepted "/tmp/a" for an open that can
\* write and resumed the tracee; a second thread has since put "/etc/passwd" into
\* the buffer, and the resumed thread is about to run the body of the open on it.
C25_Witness ==
    /\ variant = "fiddlek" /\ cpc = "payload_body" /\ tstate = "running"
    /\ regs.orig_rax = SYS["open"] /\ regs.rsi = 64 + 2
    /\ trap.kind = "seccomp" /\ trap.conts = 1
    /\ trap.accepted = << <<"/", "t", "m", "p", "/", "a">> >>
    /\ regs.rdi \in DOMAIN mem /\ mem[regs.rdi] = img_passwd

(***************************************************************************)
(* Claim about the filter program of the drawing program (FilterSpec).     *)
(***************************************************************************)
\* C26 (as claimed): the filter program of webtry/main.cpp loads the architecture
\* field first, returns KILL on a mismatch, and loads the syscall number (and
\* produces an ALLOW verdict) only when the architecture matched.
C26_MainArchitectureGate ==
    fprog = "webtry_main" =>
        /\ (fpc = 2 /\ fret = "none") => facc = fdata.arch
        /\ fNrLoaded => fdata.arch = ARCH_NR
        /\ fret \in {"ALLOW", "TRACE"} => fdata.arch = ARCH_NR
        /\ (fdata.arch # ARCH_NR /\ fret # "none") => fret = "KILL"

(***************************************************************************)
(* Claims about the filter and the supervisor together (Spec).             *)
(***************************************************************************)
\* The syscall numbers for which the filter program of variant v returns TRACE, for
\* some arguments.
TraceSet(v) ==
    { n \in 0..MaxNr :
        \E x \in FilterArgs :
            FilterVerdict(Prog(v), [arch |-> ARCH_NR, nr |-> n,
                                    args |-> <<0, x[1], x[2], 0, 0, 0>>]) = "TRACE" }

\* The syscall numbers that have a branch of their own in the dispatch of variant
\* v: those for which it reads a string from the tracee.
HandledSet(v) ==
    { n \in 0..MaxNr :
        dispatch(v, [orig_rax |-> n, rdi |-> 0, rsi |-> 0, rdx |-> 0, arch |-> ARCH_NR],
                 NoMem, TRUE, TRUE, "0", <<"/", "r">>).names # <<>> }

\* C27: in each variant the syscalls the filter traces are the syscalls the
\* dispatch has a branch for, and every seccomp stop whose registers the
\* supervisor reads is for one of them: the final else of the dispatch is never
\* taken, and a name is read and checked for every traced syscall.
C27_TraceSetIsDispatchSet ==
    /\ ppc = "main" => TraceSet(variant) = HandledSet(variant)
    /\ trap.regs = "read" =>
          /\ trap.nr \in HandledSet(variant)
          /\ trap.names # <<>>
          /\ trap.fail # "Invalid system call."

\* Witness of C27: the supervisor has checked a traced mknod and found nothing
\* wrong with it.
C27_Witness ==
    /\ variant = "fiddlek" /\ trap.regs = "read" /\ trap.nr = SYS["mknod"]
    /\ ppc = "cont" /\ trap.fail = ""

\* The child has gone past its SIGSTOP: it has made a call that follows it in
\* do_child.
PastInitialStop ==
    \E i \in 1..Len(childLog) : childLog[i].call \notin {"PTRACE_TRACEME", "SIGSTOP"}

\* The supervisor has waited for the first stop, set the options and issued the
\* first PTRACE_CONT.
SupervisorInLoop == ppc \notin {"main", "wait_initial", "setoptions", "cont_initial"}

\* C28: the child sets no rlimit, installs no filter and calls no exec before the
\* supervisor has seen its first stop, set the trace options and continued it; so
\* a filter is installed, and a seccomp stop is pending, only with the seccomp
\* trace option set.
C28_OptionsBeforeFilter ==
    /\ PastInitialStop => (opts /\ SupervisorInLoop)
    /\ (nnp \/ filter # "none") => opts
    /\ IsSeccompStop(pending) => opts
    /\ cpc \in {"exec_body", "exec_failed", "payload", "payload_body"} => opts

\* Witness of C28: the child, continued by the supervisor after the options were
\* set, is about to make its first setrlimit call.
C28_Witness ==
    /\ cpc = "RLIMIT_CPU" /\ tstate = "running" /\ opts /\ ppc = "wait_event"
    /\ Len(childLog) = 2 /\ trap.conts = 1

\* The child has called call, with the result ok.
Called(call, ok) ==
    \E i \in 1..Len(childLog) : childLog[i].call = call /\ childLog[i].ok = ok

\* C29: the child calls execvp only after prctl(NO_NEW_PRIVS) and the install of
\* the filter have both succeeded; when one of them fails the child ends with a
\* normal exit and has not called execvp; a setrlimit that fails changes nothing in
\* what the child does next.
C29_ExecOnlyFiltered ==
    /\ [](\/ Called("execvp", TRUE) \/ Called("execvp", FALSE)
             \/ cpc \in {"execvp", "exec_body", "exec_failed", "payload", "payload_body"}
          => /\ nnp /\ filter = variant
             /\ Called("NO_NEW_PRIVS", TRUE) /\ Called("SECCOMP", TRUE))
    /\ []((Called("NO_NEW_PRIVS", FALSE) \/ Called("SECCOMP", FALSE))
          => /\ cpc = "dead" /\ filter = "none"
             /\ ~Called("execvp", TRUE) /\ ~Called("execvp", FALSE)
             /\ WIFEXITED(IF tstate = "zombie" THEN pending ELSE status))
    /\ [][ (cpc \in {"RLIMIT_CPU", "RLIMIT_AS"} /\ cpc' # cpc /\ tstate' = "running")
           => (cpc' = ChildAfter(cpc) /\ Len(childLog') = Len(childLog) + 1) ]_vars

\* Witness of C29: the target's exec is under way with the filter installed, both
\* setrlimit calls having failed.
C29_Witness ==
    /\ cpc = "exec_body" /\ nnp /\ filter = variant
    /\ Called("RLIMIT_CPU", FALSE) /\ Called("RLIMIT_AS", FALSE)
    /\ Called("NO_NEW_PRIVS", TRUE) /\ Called("SECCOMP", TRUE)

====
